---- MODULE Spec2Model ----
(***************************************************************************)
(* Discrete-event model of the clinical laboratory queueing network of     *)
(* src/app.py: the simpy event clock, the priority resources, the patient  *)
(* process, the arrival generator and the run controller.                  *)
(*                                                                         *)
(* Times are counted in millionths of a minute; the pseudo-random stream   *)
(* is the Mersenne Twister's, a function of the seed and of the number of  *)
(* draws already made.                                                     *)
(***************************************************************************)
EXTENDS Integers, Sequences, FiniteSets, TLC

VARIABLES params, seed, rngIdx, now, evq, eid, resources, pat, nextPid,
          log, status, reqSeq, calls, returned, report, pcall

vars == <<params, seed, rngIdx, now, evq, eid, resources, pat, nextPid,
          log, status, reqSeq, calls, returned, report, pcall>>

\* ---------------------------------------------------------------- bounds
\* Seeds are drawn from 0..MaxSeed.
MaxSeed == 7

\* The sequences given to percentile have at most this many elements.
MaxXs == 3

\* run_simulation is invoked at most this many times in SpecRerun.
MaxCalls == 3

\* ------------------------------------------------------------ fixed point
\* The floats of the program are kept as integers.  A time or a duration is
\* a number of millionths of a minute: every sampled duration is the
\* program's, rounded to the nearest millionth, and every other time is a
\* sum of such durations, so a time of the model and the program's differ by
\* the roundings of the durations summed (a few millionths of a minute over
\* a run).  A probability is a number of millionths.
TimeScale == 1000000
UScale == 1000000

Minutes(m) == m * TimeScale
Percent(p) == p * (UScale \div 100)

Abs(x) == IF x < 0 THEN 0 - x ELSE x
Sgn(x) == IF x < 0 THEN 0 - 1 ELSE 1

\* Numbers too wide for one integer are kept in two limbs, h * Limb + l
\* with 0 <= l < Limb.
Limb == 2 ^ 28
HalfLimb == 2 ^ 14

D(h, l) == [h |-> h, l |-> l]

\* a * b for 0 <= a, b < Limb, in two limbs.
Mul(a, b) ==
    LET a1 == a \div HalfLimb
        a0 == a % HalfLimb
        b1 == b \div HalfLimb
        b0 == b % HalfLimb
        mid == a1 * b0 + a0 * b1
        lo == a0 * b0 + (mid % HalfLimb) * HalfLimb
    IN  D(a1 * b1 + (mid \div HalfLimb) + (lo \div Limb), lo % Limb)

DAdd(x, y) ==
    LET l == x.l + y.l IN D(x.h + y.h + (l \div Limb), l % Limb)

\* x - y for x >= y.
DSub(x, y) ==
    LET l == x.l - y.l IN D(x.h - y.h + (l \div Limb), l % Limb)

DLeq(x, y) == x.h < y.h \/ (x.h = y.h /\ x.l <= y.l)

\* floor(x / 2^k).
DShr(x, k) ==
    IF k >= 28 THEN D(0, x.h \div (2 ^ (k - 28)))
    ELSE D(x.h \div (2 ^ k), (x.l \div (2 ^ k)) + (x.h % (2 ^ k)) * (2 ^ (28 - k)))

\* x * n for a small n >= 0.
DScale(x, n) ==
    LET p == Mul(x.l, n) IN D(x.h * n + p.h, p.l)

\* x * w for two limbs x and one limb w, in three limbs.
Mul3(x, w) ==
    LET p1 == Mul(x.h, w)
        p0 == Mul(x.l, w)
        m == p1.l + p0.h
    IN  <<p1.h + (m \div Limb), m % Limb, p0.l>>

Less3(x, y) ==
    \/ x[1] < y[1]
    \/ x[1] = y[1] /\ (x[2] < y[2] \/ (x[2] = y[2] /\ x[3] < y[3]))

\* The nearest integer to a number whose double has the floor f2.
RoundHalf(f2) == (f2 + 1) \div 2

\* Logarithms are kept in units of 2^-FracBits, in two limbs.
FracBits == 52

\* ln(1 + 2^-k) for k = 1..FracBits.
LnTab ==
    <<
      D(6802575, 187688467), D(3743727, 150164292), D(1976071, 115519278), D(1017112, 100698901),
      D(516262, 205119692), D(260117, 23197704), D(130562, 174788712), D(65408, 89217158),
      D(32736, 11168452), D(16376, 1397078), D(8190, 174699), D(4095, 134239569),
      D(2047, 234883754), D(1023, 260047189), D(511, 266338347), D(255, 267911173),
      D(127, 268304385), D(63, 268402688), D(31, 268427264), D(15, 268433408),
      D(7, 268434944), D(3, 268435328), D(1, 268435424), D(0, 268435448),
      D(0, 134217726), D(0, 67108864), D(0, 33554432), D(0, 16777216),
      D(0, 8388608), D(0, 4194304), D(0, 2097152), D(0, 1048576),
      D(0, 524288), D(0, 262144), D(0, 131072), D(0, 65536),
      D(0, 32768), D(0, 16384), D(0, 8192), D(0, 4096),
      D(0, 2048), D(0, 1024), D(0, 512), D(0, 256),
      D(0, 128), D(0, 64), D(0, 32), D(0, 16),
      D(0, 8), D(0, 4), D(0, 2), D(0, 1) >>

\* ln 2.
Ln2 == D(11629079, 259857656)

\* 2^53, the denominator of a random number.
TwoTo53 == D(2 ^ 25, 0)

\* n.m * 2^(n.e - FracBits) brought to 2^FracBits <= n.m < 2^(FracBits + 1)
\* by doublings, for n.m > 0.
RECURSIVE Normalize(_)
Normalize(n) ==
    IF n.m.h >= 2 ^ 24 THEN n
    ELSE Normalize([m |-> DAdd(n.m, n.m), e |-> n.e - 1])

\* ln(m / 2^FracBits) for 2^FracBits <= m < 2^(FracBits + 1): m is
\* approached from 1 by the factors 1 + 2^-k, k = 1..FracBits, whose
\* logarithms are added up; s.t is the product and s.y the sum so far.
RECURSIVE LnMant(_, _, _)
LnMant(m, s, k) ==
    IF k > FracBits THEN s.y
    ELSE LET cand == DAdd(s.t, DShr(s.t, k))
         IN  IF DLeq(cand, m)
             THEN LnMant(m, [t |-> cand, y |-> DAdd(s.y, LnTab[k])], k + 1)
             ELSE LnMant(m, s, k + 1)

\* A random number u = <<a, b>>, that is (a * 2^26 + b) / 2^53, as the two
\* limbs of its numerator.
Numerator(u) == D(u[1] \div 4, (u[1] % 4) * (2 ^ 26) + u[2])

\* The digits of p / UScale in base 2, for 0 < p < UScale: c.r / UScale is
\* what remains of the fraction after the digits gathered in c.q, and c.e
\* counts the digits; 53 significant digits are gathered.
RECURSIVE Digits(_)
Digits(c) ==
    IF c.q.h >= 2 ^ 24 THEN c
    ELSE LET bit == IF 2 * c.r >= UScale THEN 1 ELSE 0
         IN  Digits([q |-> DAdd(DAdd(c.q, c.q), D(0, bit)),
                     r |-> 2 * c.r - bit * UScale, e |-> c.e + 1])

\* The double nearest to p / UScale (ties to even), for 0 < p < UScale, as
\* the least t with t / 2^53 >= that double.
DoubleOf(p) ==
    LET c == Digits([q |-> D(0, 0), r |-> p, e |-> 0])
        up == 2 * c.r > UScale \/ (2 * c.r = UScale /\ c.q.l % 2 = 1)
        m == IF up THEN DAdd(c.q, D(0, 1)) ELSE c.q
        e == c.e - 53
    IN  DShr(DAdd(m, D(0, 2 ^ e - 1)), e)

\* random.random() < p / UScale, for the double p / UScale.
Below(u, p) ==
    /\ p > 0
    /\ p >= UScale \/ ~DLeq(DoubleOf(p), Numerator(u))

\* -math.log(1.0 - u), in units of 2^-FracBits.
NegLog1mU(u) ==
    LET x == DSub(TwoTo53, Numerator(u))
    IN  IF x = TwoTo53 THEN D(0, 0)
        ELSE LET n == Normalize([m |-> x, e |-> FracBits])
             IN  DSub(DScale(Ln2, 53 - n.e),
                      LnMant(n.m, [t |-> D(2 ^ 24, 0), y |-> D(0, 0)], 1))

\* l * mean / 2^FracBits to the nearest integer, for 0 <= mean < Limb.
TimesRound(l, mean) ==
    LET p0 == Mul(l.l, mean)
        p1 == Mul(l.h % Limb, mean)
        s1 == p0.h + p1.l
        limb2 == p1.h + (l.h \div Limb) * mean + (s1 \div Limb)
    IN  RoundHalf(limb2 * 32 + ((s1 % Limb) \div (2 ^ 23)))

\* floor(sqrt(x)) for two limbs x, by bisection of lo..hi.
RECURSIVE ISqrtIn(_, _, _)
ISqrtIn(x, lo, hi) ==
    IF lo >= hi THEN lo
    ELSE LET mid == (lo + hi + 1) \div 2
         IN  IF DLeq(Mul(mid, mid), x) THEN ISqrtIn(x, mid, hi)
             ELSE ISqrtIn(x, lo, mid - 1)

\* sqrt(n / 2^53 * f * w) to the nearest integer, for two limbs n <= 2^53
\* and 0 <= f, w < Limb / 2.
RootRound(n, f, w) ==
    LET k == Mul(f, w)
        a == Mul3(n, k.l)
        b == Mul3(n, k.h)
        s1 == a[2] + b[3]
        s2 == a[1] + b[2] + (s1 \div Limb)
        l1 == s1 % Limb
        l2 == s2 % Limb
        l3 == b[1] + (s2 \div Limb)
        x4 == D(l3 * 32 + (l2 \div (2 ^ 23)),
                (l2 % (2 ^ 23)) * 32 + (l1 \div (2 ^ 23)))
    IN  RoundHalf(ISqrtIn(x4, 0, Limb - 1))

\* ------------------------------------------------------ the random stream
\* The Mersenne Twister of the random module: the first outputs of
\* random.random() after random.seed(s), for s = 0, 1, 2, ...  An output
\* is (a * 2^26 + b) / 2^53 for two successive words of the generator,
\* a of 27 bits and b of 26 bits; the table holds <<a, b>>.
MersenneTwister ==
 <<
    \* random.seed(0)
    <<
       <<113336382, 25853374>>, <<101730917, 59743258>>, <<56448162, 2716860>>, <<34751217, 64791251>>, <<68622131, 32610055>>,
       <<54349339, 61621662>>, <<105199665, 55690485>>, <<40709944, 64947958>>, <<63967760, 24028286>>, <<78300211, 59838333>>,
       <<121884848, 14659443>>, <<67737923, 9346500>>, <<37827635, 9378180>>, <<101442323, 6363984>>, <<82996081, 53646998>>,
       <<33622391, 66253843>>, <<122104075, 35739740>>, <<131907233, 47323308>>, <<108745516, 40392964>>, <<121086664, 9862412>>,
       <<41627302, 6627895>>, <<97956359, 4948770>>, <<120640032, 57074332>>, <<91802769, 22159160>>, <<63369922, 37568460>>,
       <<13515887, 23742534>>, <<58273557, 21219601>>, <<81991861, 42978086>>, <<122542269, 13722269>>, <<129735710, 37079236>>,
       <<64023168, 29708648>>, <<116139932, 34987450>>, <<34962686, 4179512>>, <<108049005, 61637135>>, <<73645173, 61471349>>,
       <<1884645, 6259368>>, <<96597127, 56377567>>, <<53529189, 47664300>>, <<110708818, 52683663>>, <<89678004, 41960879>>,
       <<153386, 41063718>>, <<66246899, 55570385>>, <<116447673, 22356320>>, <<32737163, 49008165>>, <<43648190, 47220651>>,
       <<116832671, 4226803>>, <<25644590, 61540101>>, <<76170002, 14878296>>, <<32026487, 53911573>>, <<129861054, 9562636>>,
       <<107800923, 36439439>>, <<60125458, 6121399>>, <<10797254, 66653970>>, <<42957001, 58726113>>, <<68174638, 66972742>>,
       <<125202836, 32835480>>, <<14637496, 20229751>>, <<73989837, 19534764>>, <<94833067, 8375905>>, <<73476275, 22330508>>,
       <<109315891, 61891131>>, <<72515638, 13636645>>, <<129364219, 53648645>>, <<80958204, 36723990>>, <<78868627, 19304352>>,
       <<59725416, 6149325>>, <<80032267, 53548512>>, <<51660557, 21276653>>, <<77262571, 16247536>>, <<38967366, 12339221>>,
       <<25419673, 55127731>>, <<25062413, 2212741>>, <<82245023, 65853910>>, <<88135331, 17452076>>, <<63958907, 4636232>>,
       <<12056021, 45548393>>, <<101683877, 8739214>>, <<117678127, 10036152>>, <<123934102, 2593191>>, <<113073097, 5385373>>,
       <<120550755, 46930758>>, <<123894027, 55657465>>, <<72558093, 45868800>>, <<52518866, 56228183>>, <<94661535, 35203561>>,
       <<36994985, 35016740>>, <<108934961, 15804253>>, <<114016076, 14441914>>, <<120130096, 45598752>>, <<79161774, 55382482>>,
       <<127475283, 28147017>>, <<77805347, 18469085>>, <<60473556, 33061543>>, <<88616634, 43029990>>, <<133715463, 46991339>>,
       <<123069766, 65931800>>, <<106478290, 23982530>>, <<11055915, 21765071>>, <<82246356, 7740990>>, <<65289435, 39397916>>,
       <<84576944, 22499620>>, <<113424392, 12776108>>, <<32619689, 1087769>>, <<98178821, 18189049>>, <<15721498, 47334104>>,
       <<29589712, 24968536>>, <<106647121, 11440838>>, <<44632246, 28597176>>, <<109510002, 4173665>>, <<13503312, 52554193>>,
       <<19643903, 57399729>>, <<93639768, 14681645>>, <<6071213, 54836015>>, <<77022995, 42560871>>, <<122140281, 62848774>>,
       <<71698837, 40410977>>, <<91347127, 4965847>>, <<3583183, 8351276>>, <<85228245, 12651404>>, <<81381364, 55706137>>,
       <<77303096, 8032627>>, <<52507238, 6142598>>, <<49679341, 55958352>>, <<131602717, 7787724>>, <<4884456, 40634697>>,
       <<2904003, 13058777>>, <<128987434, 65142031>>, <<24826513, 48191769>>, <<16628927, 32160826>>, <<28263100, 48798561>>,
       <<107474388, 4099337>>, <<125757871, 45590218>>, <<3057825, 36523020>>, <<57125592, 41647759>>, <<13623128, 56096477>>,
       <<34885857, 4697909>>, <<29639203, 4829938>>, <<86828900, 20203897>>, <<47015660, 29264071>>, <<24201859, 4096488>>,
       <<67596947, 31348646>>, <<5285320, 40029425>>, <<13545419, 46930780>>, <<132638676, 26258101>>, <<26757081, 17457247>>,
       <<48124477, 60693164>>, <<98193462, 31555672>>, <<112518286, 60552611>>, <<123276575, 38236519>>, <<22739785, 46821657>>,
       <<90280288, 13650928>>, <<129727997, 51495875>>, <<7791465, 52925290>>, <<90758267, 10617201>>, <<113470968, 10868553>>,
       <<45944411, 35532413>>, <<33646685, 7866020>>, <<80099984, 61835341>>, <<59366384, 44668050>>, <<23463874, 886089>>,
       <<63300491, 45719972>>, <<55016570, 60404557>>, <<76385018, 58707149>>, <<68263153, 61573129>>, <<41801574, 43549189>>,
       <<47936087, 26081339>>, <<112428979, 44131876>>, <<33679612, 10295356>>, <<75242487, 46360330>>, <<1669174, 30732786>>,
       <<99532428, 5306552>>, <<45085956, 49594532>>, <<6133279, 36528663>>, <<37699500, 9048798>>, <<32229757, 51148138>>,
       <<127926854, 32334868>>, <<47274914, 40945510>>, <<38638319, 45191341>>, <<48211168, 39612864>>, <<127091549, 59857317>>,
       <<85060196, 57295828>>, <<83359523, 8881474>>, <<96048803, 20823718>>, <<52078791, 50230037>>, <<55622240, 55626723>>,
       <<87353308, 5417236>>, <<204577, 39901382>>, <<25811349, 46881090>>, <<44882635, 10742772>>, <<32133866, 14971841>>,
       <<85550299, 30073852>>, <<50821283, 47670779>>, <<117497338, 45216288>>, <<76255992, 58689228>>, <<55620685, 2116981>>,
       <<53991372, 58498004>>, <<94197977, 38082424>>, <<56133417, 51820506>>, <<88878427, 47580589>>, <<6278663, 11118259>>,
       <<59774159, 4287337>>, <<34792848, 47077953>>, <<21164333, 29955028>>, <<70809666, 59387687>>, <<65399681, 60937523>>,
       <<75350493, 40532236>>, <<101399449, 4641>>, <<118631715, 2611218>>, <<66381762, 21873725>>, <<41883748, 56219567>>,
       <<62665215, 3345846>>, <<108588296, 55211799>>, <<117442703, 65375903>>, <<109040486, 27859400>>, <<25233106, 36813376>>,
       <<134139929, 64628370>>, <<84971734, 65670838>>, <<11202757, 56200210>>, <<97382257, 8759166>>, <<132448937, 988465>>,
       <<53930940, 63723056>>, <<91068742, 28016949>>, <<42436577, 227687>>, <<28658795, 959073>>, <<96277616, 50650671>>,
       <<316426, 65783104>>, <<110425140, 45349613>>, <<70913396, 41074783>>, <<13124392, 12781549>>, <<15959010, 40826324>>,
       <<87142930, 13322208>>, <<117259831, 20294797>>, <<37578647, 46207137>>, <<131334085, 12228654>>, <<13446024, 31917343>>,
       <<114613632, 61926028>>, <<53243659, 42120147>>, <<10917997, 1466026>>, <<36871467, 61329523>>, <<60797702, 53675317>>,
       <<106346280, 7769823>>, <<115609769, 17212670>>, <<17907403, 43860138>>, <<69909387, 54846277>>, <<87346647, 43281235>>,
       <<46580667, 7724857>>, <<117019583, 10364302>>, <<37367532, 57125732>>, <<2493004, 2838544>>, <<5457732, 13806691>>,
       <<91401839, 17426117>>, <<74941238, 21120047>>, <<127037422, 24621825>>, <<125955123, 38082118>>, <<122118157, 57004805>>,
       <<5637752, 56798252>>, <<100547173, 64505235>>, <<94130223, 40775110>>, <<87961180, 33184371>>, <<95611025, 43227735>>,
       <<121159705, 30780444>>, <<85918297, 29221925>>, <<49989293, 58479384>>, <<72199579, 11964726>>, <<27896363, 25204674>>,
       <<78802651, 19531061>>, <<1194146, 9291688>>, <<20269987, 18211562>>, <<44749316, 22649984>>, <<105981426, 24642473>>,
       <<96435360, 6288604>>, <<45399947, 52305783>>, <<83287215, 2393469>>, <<5530166, 18094035>>, <<21992990, 10027140>>,
       <<131790275, 39154745>>, <<38860173, 24220032>>, <<52988082, 66391002>>, <<73616316, 8700056>>, <<39380421, 7710567>>,
       <<64164753, 49024483>>, <<32172805, 62663175>>, <<6476859, 20661461>>, <<24103738, 57514751>>, <<70202613, 48899595>>,
       <<9511055, 20311884>>, <<54112446, 56073464>>, <<44093303, 20080683>>, <<55662992, 7291473>>, <<13341287, 37636663>>,
       <<121957952, 32290926>>, <<63619827, 22621092>>, <<112856752, 53544441>>, <<131027299, 54514453>>, <<46124136, 8343296>>,
       <<64301904, 7785169>>, <<93898090, 33402398>>, <<57248602, 2538351>>, <<40520750, 22486966>>, <<98616608, 46111204>>,
       <<120044306, 10446440>>, <<123438547, 11177395>>, <<84119893, 37882107>>, <<50408332, 54097696>>, <<130803298, 66538421>>,
       <<85748823, 5833221>>, <<8836180, 54208699>>, <<11364157, 13290258>>, <<100645790, 14834999>>, <<8208240, 25824289>>,
       <<1053744, 6581803>>, <<52856008, 37344378>>, <<69659501, 19449545>>, <<60202594, 61750401>>, <<65581305, 52901163>>,
       <<78502432, 47942999>>, <<91174447, 14579638>>, <<56779209, 5614545>>, <<49436611, 14773201>>, <<132668728, 67048911>>,
       <<35019624, 39273985>>, <<104300617, 11179069>>, <<57877506, 12881211>>, <<48119791, 7718351>>, <<8570868, 55162190>>,
       <<115907603, 57234377>>, <<94221402, 1853476>>, <<121200045, 35286895>>, <<60614308, 50495286>>, <<90854794, 13535047>>,
       <<15959868, 33358975>>, <<53412428, 17212059>>, <<27814204, 43016598>>, <<5650757, 66910254>>, <<127233218, 53514837>>,
       <<28976851, 41836678>>, <<19643367, 7021579>>, <<26571089, 30763243>>, <<50738591, 24269390>>, <<73335393, 55498130>>,
       <<20311755, 7029403>>, <<132699710, 40013020>>, <<131934578, 32742509>>, <<19918181, 37842964>>, <<54479899, 42839852>>,
       <<91258590, 28403080>>, <<117797072, 34979062>>, <<66492257, 45588283>>, <<123083920, 59578033>>, <<43279890, 55937486>>,
       <<66899603, 66986930>>, <<66927212, 42618476>>, <<89935024, 58700056>>, <<27110814, 36427300>>, <<81842025, 62499384>>,
       <<29363228, 651268>>, <<45663597, 47351593>>, <<129193483, 50132930>>, <<120662816, 21358029>>, <<109805990, 21597302>>,
       <<4760469, 35239360>>, <<19913465, 58685578>>, <<34478106, 40438909>>, <<105249055, 10462631>>, <<113056065, 25434602>>,
       <<78241980, 19755664>>, <<96385998, 47403903>>, <<108321139, 31570115>>, <<8906571, 53683455>>, <<11360609, 34663593>>,
       <<116621154, 61439122>>, <<5290303, 4452987>>, <<30211156, 8757314>>, <<5453538, 20162743>>, <<2051536, 50928831>>,
       <<113273680, 30104304>>, <<44371624, 57841357>>, <<21567454, 53730406>>, <<19974213, 58297168>>, <<88058058, 30919408>>,
       <<130003059, 24918988>>, <<67779911, 25651192>>, <<120942316, 35554790>>, <<67434825, 2256066>>, <<77023860, 6083209>>,
       <<91076305, 53294179>>, <<108060033, 34762281>>, <<101716419, 40274866>>, <<132947030, 5124305>>, <<100255997, 28612983>>,
       <<121571830, 50641574>>, <<27662922, 19439031>>, <<71862359, 60474395>>, <<80344646, 28040811>>, <<110823123, 65266625>>,
       <<64721608, 56740006>>, <<106171619, 65245506>>, <<52152833, 40763931>>, <<78703726, 15674690>>, <<114261780, 58034184>>,
       <<107113729, 1374509>>, <<88178973, 59408460>>, <<32305, 49710582>>, <<24423455, 20296542>>, <<68029300, 38269946>>,
       <<34152962, 22326167>>, <<8807480, 33118896>>, <<115411599, 17583027>>, <<126560206, 55366177>>, <<40641782, 51840265>>,
       <<54770653, 25780522>>, <<108721397, 25748290>>, <<8356229, 10992124>>, <<86031531, 62781975>>, <<17088710, 16035777>>,
       <<38532344, 48952605>>, <<111392753, 22416014>>, <<7452713, 63207295>>, <<4822957, 32301537>>, <<56085031, 9455966>>,
       <<66012433, 59724304>>, <<115873544, 40397301>>, <<96259444, 5477401>>, <<90401519, 46888722>>, <<20317043, 54377540>>,
       <<132433427, 23674117>>, <<55182303, 2360875>>, <<82110495, 31291451>>, <<51899714, 30795072>>, <<6312651, 6810241>>,
       <<63201679, 52220652>>, <<20316236, 1357483>>, <<4357440, 40151250>>, <<82866082, 8905477>>, <<84552644, 21737323>>,
       <<14132163, 46981552>>, <<73704828, 43553133>>, <<46528988, 13084458>>, <<51460965, 52574222>>, <<104209314, 52174523>>,
       <<65809593, 7448877>>, <<118282945, 4037324>>, <<81888885, 47031061>>, <<62704967, 41227044>>, <<84867565, 62674009>>,
       <<45347523, 43652449>>, <<16686456, 65061065>>, <<91607574, 47890018>>, <<83488452, 19890153>>, <<105839602, 56984254>>,
       <<17060297, 64321770>>, <<122377485, 26014461>>, <<107285761, 19716821>>, <<123062544, 50048723>>, <<117109627, 64259882>>,
       <<91403137, 65994727>>, <<108750028, 8157243>>, <<69659981, 57742626>>, <<105426568, 66829767>>, <<25384259, 2562512>>,
       <<104973578, 26308445>>, <<59670464, 24936421>>, <<101551310, 12782732>>, <<61132180, 23927921>>, <<105972778, 42413702>>,
       <<10111907, 64189463>>, <<5991600, 60527331>>, <<125398225, 2683057>>, <<65251975, 17138686>>, <<120939756, 1788853>>,
       <<126806661, 34900849>>, <<89457612, 38202174>>, <<76745270, 58779129>>, <<28988262, 15411902>>, <<12546165, 52099472>>,
       <<109977229, 59370275>>, <<119288967, 42105963>>, <<104608721, 33716356>>, <<93751409, 35145686>>, <<56386359, 34031356>>,
       <<40978227, 63450461>>, <<15226316, 9777118>>, <<57172758, 59850510>>, <<75968975, 28323733>>, <<123866935, 5639295>>,
       <<125594879, 7030634>>, <<55786417, 4222679>>, <<13315873, 27861013>>, <<103860192, 10479516>>, <<98553304, 64059024>>,
       <<4120597, 53106119>>, <<59957555, 28929712>>, <<92129478, 27985705>>, <<4044548, 33327924>>, <<123383988, 57985928>>,
       <<129150000, 21776767>>, <<96978049, 16950754>>, <<10541264, 23656077>>, <<9439461, 8145539>>, <<48218163, 46424244>>,
       <<3942982, 23182428>>, <<46691358, 11939181>>, <<1337377, 55718479>>, <<130771488, 15468159>>, <<109925218, 24548588>>,
       <<9464713, 40036412>>, <<119914828, 9616105>>, <<27914340, 216902>>, <<27486555, 44225982>>, <<90430421, 49130498>>,
       <<125931429, 60458640>>, <<16534029, 50195874>>, <<964296, 19680543>>, <<49543809, 46269312>>, <<3308468, 62598345>>,
       <<81181356, 15627178>>, <<115316598, 9521904>>, <<25097601, 30470650>>, <<15084869, 31990386>>, <<46231243, 47478211>>,
       <<128737822, 17328773>>, <<17469470, 1874769>>, <<129724019, 13966705>>, <<48619012, 22482352>>, <<63534699, 64485384>>,
       <<39276400, 19887486>>, <<125779035, 58949117>>, <<128600433, 37124926>>, <<85351161, 21943534>>, <<24702175, 39796857>>,
       <<133271733, 5423001>>, <<13768113, 35784317>>, <<77960284, 20653591>>, <<20992063, 25272455>>, <<120483941, 9860094>>,
       <<126926805, 8404445>>, <<107963438, 14953024>>, <<42398228, 34113613>>, <<32593257, 15881795>>, <<101315381, 12344301>>,
       <<39065347, 24995496>>, <<56342639, 44506297>>, <<6208331, 57779027>>, <<17748121, 40346400>>, <<2758123, 26427549>>,
       <<10458395, 47121799>>, <<9826234, 8859730>>, <<56402544, 20091498>>, <<73924061, 27967573>>, <<99439071, 62169410>>,
       <<19096964, 39666473>>, <<56665214, 20000327>>, <<85492134, 23794395>>, <<11348873, 16646924>>, <<59701542, 42465079>>,
       <<49560706, 42751333>>, <<127363487, 35514500>>, <<7765450, 25261907>>, <<54844883, 565567>>, <<55999055, 64555811>>,
       <<97734732, 60482691>>, <<43039733, 29614966>>, <<27379111, 24937424>>, <<39367623, 63910518>>, <<63201456, 6110697>>,
       <<127542856, 12445889>>, <<106906705, 7289047>>, <<37174317, 7526845>>, <<74917864, 40637494>>, <<92368681, 10326633>>,
       <<106791295, 47150559>>, <<59883169, 62295025>>, <<53522930, 12440687>>, <<103030996, 28300097>>, <<57944007, 11726415>>,
       <<33280314, 64393122>>, <<60860630, 22843045>>, <<125776056, 35121333>>, <<19135084, 23848305>>, <<62067022, 42380383>>,
       <<85537431, 5804876>>, <<64865815, 50669546>>, <<27332085, 19778883>>, <<247384, 55712018>>, <<93817079, 30137810>>,
       <<83045275, 31005023>>, <<1043764, 14679002>>, <<40072061, 7681094>>, <<103164343, 65686324>>, <<84412264, 20210436>>,
       <<73176594, 40880071>>, <<20967642, 28468188>>, <<94797181, 50422412>>, <<63274924, 6211129>>, <<91023610, 33398712>>,
       <<102017530, 64486121>>, <<31187196, 36489828>>, <<102273239, 27199565>>, <<37592826, 42417204>>, <<132072276, 1450852>> >>,
    \* random.seed(1)
    <<
       <<18034063, 38198625>>, <<113740630, 53839096>>, <<102512094, 4235027>>, <<34234785, 7913390>>, <<66496171, 51067325>>,
       <<60329669, 31691841>>, <<87455328, 25475546>>, <<105860656, 14089828>>, <<12597620, 32739506>>, <<3804733, 59949491>>,
       <<112174493, 26159626>>, <<58085012, 40764473>>, <<102311500, 51483077>>, <<282669, 46696553>>, <<59778857, 17873141>>,
       <<96843463, 53809656>>, <<30703945, 39671635>>, <<126872085, 6860348>>, <<120987545, 21302342>>, <<4105718, 1498011>>,
       <<3415285, 43590303>>, <<72667152, 617732>>, <<126050466, 59138603>>, <<51164366, 46069151>>, <<29071478, 65031217>>,
       <<56655527, 48711143>>, <<3897788, 35408610>>, <<29754951, 51251106>>, <<58772277, 63026431>>, <<66546792, 37101778>>,
       <<31284065, 23199562>>, <<30986382, 45422536>>, <<29364293, 51066338>>, <<61686932, 63904043>>, <<38893829, 62176807>>,
       <<2884299, 27929362>>, <<112417812, 61489827>>, <<74686034, 61887026>>, <<86207290, 6710904>>, <<24951916, 42235158>>,
       <<133216921, 48562591>>, <<115420069, 19890422>>, <<16225575, 49871728>>, <<44653591, 60101047>>, <<96835997, 65313853>>,
       <<95454543, 33608098>>, <<125686927, 64908382>>, <<56654242, 34072327>>, <<111405504, 61081485>>, <<89966890, 12740599>>,
       <<40717432, 19069612>>, <<78863733, 65327217>>, <<118444326, 33511620>>, <<113574694, 63143634>>, <<67818046, 26397514>>,
       <<79054544, 57263185>>, <<4633978, 32227486>>, <<32580007, 49910919>>, <<107025786, 27131314>>, <<55608283, 44610182>>,
       <<23220660, 24637263>>, <<73658522, 59239143>>, <<94360533, 52065583>>, <<90527955, 49540801>>, <<50291788, 5802741>>,
       <<58916432, 44544032>>, <<68239848, 7243144>>, <<104480799, 10985606>>, <<69919170, 56368193>>, <<52781805, 24865355>>,
       <<65725551, 49175081>>, <<3969484, 31495541>>, <<5836765, 20705059>>, <<94406345, 56928554>>, <<131961221, 41259248>>,
       <<79615772, 38800728>>, <<52828055, 43429915>>, <<22863882, 11314171>>, <<67409318, 15229507>>, <<131812095, 825545>>,
       <<103417865, 13389316>>, <<72426227, 61745955>>, <<115466139, 36798371>>, <<31162152, 27142506>>, <<68957265, 23073764>>,
       <<127838008, 56872144>>, <<77550306, 23707827>>, <<61623617, 61052625>>, <<36142079, 44239157>>, <<73550819, 40865595>>,
       <<128461972, 48949217>>, <<766266, 25748975>>, <<105180424, 57508882>>, <<110123754, 64065228>>, <<118941009, 62978930>>,
       <<99388685, 34393288>>, <<108600919, 8673782>>, <<69615820, 52170241>>, <<75344177, 13789882>>, <<57188922, 63734581>>,
       <<7532741, 32286196>>, <<116770786, 24477021>>, <<76504015, 37205234>>, <<26821992, 63150347>>, <<67742434, 27742807>>,
       <<65085546, 54583095>>, <<47887538, 27811558>>, <<46449792, 106350>>, <<72273400, 36246138>>, <<83683337, 52777389>>,
       <<82201978, 22222258>>, <<61491422, 40255600>>, <<3754738, 53993744>>, <<30817065, 42639032>>, <<23784892, 36960627>>,
       <<78445010, 12132208>>, <<115562653, 6147266>>, <<107164660, 36978939>>, <<106984623, 57128031>>, <<109580368, 62474998>>,
       <<34264986, 2178295>>, <<112977078, 63321927>>, <<90343768, 4728052>>, <<11171496, 58255734>>, <<2240178, 30400234>>,
       <<1954206, 50609833>>, <<101413140, 18870789>>, <<33495272, 18028241>>, <<14695314, 53505072>>, <<83859516, 12388979>>,
       <<46227654, 19480651>>, <<9330196, 11238742>>, <<21424575, 17127263>>, <<70783798, 63884796>>, <<22568032, 44067472>>,
       <<36629955, 43500153>>, <<95507983, 19763075>>, <<61029019, 47152402>>, <<43218345, 33319125>>, <<63588469, 7663204>>,
       <<3172179, 20938296>>, <<51882816, 23041323>>, <<56494748, 53432279>>, <<25238208, 17342328>>, <<14597747, 17009288>>,
       <<120771594, 48999686>>, <<68466607, 65547796>>, <<28063717, 64797870>>, <<81288784, 28967913>>, <<109661207, 65468282>>,
       <<2794159, 15124594>>, <<2397735, 26663383>>, <<19657762, 2370690>>, <<96480463, 64417350>>, <<21505383, 29908307>>,
       <<94570566, 33977842>>, <<91023214, 28633005>>, <<73108686, 55851010>>, <<29608396, 65563759>>, <<130942079, 42330381>>,
       <<107080360, 46644075>>, <<69336813, 30255697>>, <<29956830, 35158027>>, <<87041058, 2060260>>, <<53002313, 45291945>>,
       <<77288736, 53914289>>, <<43116882, 44280031>>, <<84684388, 28608467>>, <<7890004, 49489515>>, <<40078212, 8434464>>,
       <<129909783, 14235916>>, <<117512217, 3183656>>, <<41122516, 4746400>>, <<115227853, 5130214>>, <<41656300, 61550660>>,
       <<126069159, 19990375>>, <<99836799, 10617118>>, <<55857695, 37912530>>, <<33870931, 8750400>>, <<1138201, 37629102>>,
       <<117939519, 57077878>>, <<5089070, 39633419>>, <<109979900, 14602240>>, <<129144448, 60452536>>, <<76541762, 30927287>>,
       <<23020634, 55560311>>, <<116471602, 58377089>>, <<130697899, 52346072>>, <<94492386, 41806326>>, <<68299878, 2511440>>,
       <<50730118, 13449116>>, <<46564275, 6645479>>, <<27616875, 38479061>>, <<90483285, 60167508>>, <<58109581, 39688807>>,
       <<26054163, 33041099>>, <<14015581, 62945020>>, <<89383306, 26176519>>, <<39738201, 33830072>>, <<67082010, 1154285>>,
       <<43667154, 41079238>>, <<116987058, 26999554>>, <<120752773, 18881194>>, <<2428399, 10533762>>, <<26958034, 57548316>>,
       <<43988612, 54434620>>, <<132479570, 37805143>>, <<105052266, 9069302>>, <<45512647, 28805836>>, <<28592375, 17886891>>,
       <<90523827, 6469636>>, <<112434334, 25449943>>, <<125116084, 36750593>>, <<46150740, 61367340>>, <<118432810, 56216608>>,
       <<92222367, 35858282>>, <<65028317, 51536331>>, <<132272675, 35736840>>, <<31492906, 4383736>>, <<97370289, 2711228>>,
       <<11365588, 8926620>>, <<22775962, 11177152>>, <<122270710, 36118577>>, <<28584107, 17985842>>, <<101886849, 22295811>>,
       <<80558665, 33949601>>, <<112894852, 17132304>>, <<49406619, 22739944>>, <<45672311, 7644566>>, <<39086254, 15783300>>,
       <<116423117, 63350425>>, <<81065162, 52314033>>, <<128084978, 47990128>>, <<119086706, 32802331>>, <<18165829, 38920259>>,
       <<73976848, 51690814>>, <<13995553, 21523554>>, <<5252986, 27286392>>, <<9823854, 25516819>>, <<116255148, 66520545>>,
       <<105779199, 9887040>>, <<111200189, 8389765>>, <<45754483, 7696672>>, <<82568871, 39420278>>, <<104945324, 62153910>>,
       <<50739620, 5144004>>, <<76608999, 36928313>>, <<30026394, 37981370>>, <<10971394, 63904162>>, <<35799041, 24487474>>,
       <<119556874, 19834199>>, <<75758771, 35855875>>, <<124160418, 7671623>>, <<61440749, 60180505>>, <<37202841, 7229683>>,
       <<105631320, 3070346>>, <<111101161, 19846637>>, <<1661849, 41183161>>, <<89981127, 976310>>, <<12305500, 27751826>>,
       <<15448795, 55439973>>, <<118790751, 53007829>>, <<5371868, 12611238>>, <<32163045, 52714826>>, <<132628388, 39379003>>,
       <<56507487, 10872967>>, <<15509956, 30259965>>, <<22465824, 45693757>>, <<32402882, 10666602>>, <<99858850, 56708258>>,
       <<13802165, 29199256>>, <<122240730, 64739504>>, <<50771515, 54122450>>, <<130226634, 36435109>>, <<122033808, 54918546>>,
       <<39463177, 36923906>>, <<34012132, 47755402>>, <<64023211, 21103036>>, <<13439106, 13932781>>, <<87516696, 21301450>>,
       <<5317735, 1829558>>, <<1410111, 52805277>>, <<131880141, 62116211>>, <<39668030, 48753497>>, <<80070356, 21491699>>,
       <<60377111, 26257621>>, <<42047845, 26746584>>, <<8450991, 4307850>>, <<122593401, 21296966>>, <<130166134, 40362418>>,
       <<130163883, 30592111>>, <<14946796, 16781432>>, <<28882751, 52689559>>, <<82920635, 52205302>>, <<131527049, 59808050>>,
       <<72868575, 58224579>>, <<92367272, 31468695>>, <<88829913, 23879144>>, <<34773933, 12295870>>, <<72692625, 13947698>>,
       <<41247942, 13369152>>, <<33068724, 24190301>>, <<10921130, 55027728>>, <<37686556, 6000526>>, <<131986588, 50552213>>,
       <<60116421, 6072576>>, <<87511372, 38544394>>, <<86364555, 22742105>>, <<126263250, 15262316>>, <<52409143, 64867299>>,
       <<41175891, 2754970>>, <<43921599, 12536798>>, <<42511471, 53199330>>, <<113700503, 38856477>>, <<119923572, 61830850>>,
       <<40642380, 16498588>>, <<44873470, 6774480>>, <<73044698, 41029805>>, <<77710109, 54194950>>, <<79988738, 6176963>>,
       <<32896497, 14774380>>, <<2734555, 54241636>>, <<32716819, 26962573>>, <<9707637, 17989458>>, <<73981449, 58220701>>,
       <<9518233, 48933721>>, <<10083750, 1443785>>, <<85279541, 665516>>, <<39033407, 50380552>>, <<106325238, 24104925>>,
       <<66204376, 31462943>>, <<115782785, 57654237>>, <<20693635, 6773596>>, <<67300739, 52193644>>, <<106700878, 22017985>>,
       <<10349124, 34176533>>, <<127403218, 44644000>>, <<23252162, 12050498>>, <<104181006, 10036998>>, <<132190486, 9498466>>,
       <<110266593, 58085785>>, <<42920682, 20510004>>, <<14344886, 47601927>>, <<69035995, 56015041>>, <<123393999, 40392332>>,
       <<39391493, 8475837>>, <<119958275, 13874123>>, <<19016054, 36607412>>, <<122202781, 48494781>>, <<4262747, 52327697>>,
       <<42422019, 55098379>>, <<121210457, 41844227>>, <<107891763, 45110465>>, <<121756117, 37107948>>, <<112839329, 63315509>>,
       <<100151239, 66232109>>, <<92555898, 13786452>>, <<23911541, 20060609>>, <<58067689, 36070498>>, <<21192569, 3258725>>,
       <<95942113, 57854483>>, <<89627745, 16595813>>, <<33901573, 52195699>>, <<8645526, 45773333>>, <<129303464, 29977193>>,
       <<108481831, 28868314>>, <<73721762, 16791967>>, <<72662478, 29487554>>, <<114258567, 36108589>>, <<60842195, 729240>>,
       <<53111356, 56122539>>, <<45455403, 11510351>>, <<34624025, 32600352>>, <<3276053, 53221830>>, <<86763552, 62588373>>,
       <<55926363, 65519189>>, <<76585123, 1269094>>, <<8364667, 46419430>>, <<47639702, 38927877>>, <<18560179, 39832220>>,
       <<16794532, 9294295>>, <<34777553, 65982580>>, <<111257689, 18583406>>, <<53391451, 37854227>>, <<53832335, 11554416>>,
       <<82200966, 5989280>>, <<31343819, 32614686>>, <<1003569, 11917065>>, <<70961146, 21289725>>, <<67229608, 59930586>>,
       <<87085775, 61769383>>, <<58829905, 62418483>>, <<92142232, 42890002>>, <<98169792, 15148522>>, <<31994107, 21004059>>,
       <<66447472, 46100391>>, <<64267056, 64192294>>, <<30207321, 47838292>>, <<55330739, 22612432>>, <<75216612, 41022758>>,
       <<121727359, 48870065>>, <<123172492, 43849449>>, <<36940122, 65253556>>, <<86760376, 14728327>>, <<6468937, 61847764>>,
       <<9603464, 51217102>>, <<68678098, 43304573>>, <<117765866, 24742375>>, <<21403396, 34335029>>, <<102814518, 53182436>>,
       <<118515538, 13679754>>, <<41849360, 20046622>>, <<92953422, 20103547>>, <<113949659, 37065422>>, <<49877231, 11084955>>,
       <<94124565, 47061833>>, <<98840366, 31190747>>, <<79802882, 5702455>>, <<114927572, 8270757>>, <<120340201, 40675029>>,
       <<128859597, 34490684>>, <<76669554, 25313309>>, <<23659350, 10454166>>, <<33634346, 28638901>>, <<29208285, 63195967>>,
       <<76439324, 48291382>>, <<101703498, 52497158>>, <<6997202, 33220621>>, <<91487696, 26414535>>, <<96254681, 42746529>>,
       <<46705287, 25768237>>, <<69129619, 56738195>>, <<22118833, 36522179>>, <<97965002, 66727085>>, <<5463827, 35176719>>,
       <<131697261, 6066761>>, <<108440372, 17125103>>, <<84348930, 6781111>>, <<35906764, 49453025>>, <<122522383, 5618349>>,
       <<128773700, 65419122>>, <<18673196, 65043826>>, <<104120375, 41399635>>, <<113002046, 64880927>>, <<88545764, 46078905>>,
       <<94007139, 5503482>>, <<59734771, 57107656>>, <<124058493, 16172584>>, <<130353267, 57109698>>, <<51318592, 63082137>>,
       <<107738117, 60627887>>, <<58105752, 26658323>>, <<22112936, 61074714>>, <<43683478, 29402336>>, <<16955735, 41768727>>,
       <<121988447, 32746878>>, <<128771720, 14228094>>, <<15996972, 28941402>>, <<80621781, 35839793>>, <<54790910, 61021824>>,
       <<15849775, 44326056>>, <<39658052, 18634281>>, <<33315037, 25424159>>, <<100606496, 37538962>>, <<538072, 64411364>>,
       <<25479719, 35457851>>, <<58891124, 38861577>>, <<2823226, 2067516>>, <<84225192, 65303063>>, <<81285952, 16256396>>,
       <<112116410, 17474932>>, <<27730163, 11599918>>, <<38222741, 9959656>>, <<72791566, 13451787>>, <<36671732, 20879960>>,
       <<78616434, 50829573>>, <<33672842, 55858393>>, <<91741461, 29957163>>, <<106178398, 57796911>>, <<108535785, 57384066>>,
       <<130676542, 11272917>>, <<73199262, 23954873>>, <<65875306, 28183477>>, <<114849801, 8173860>>, <<103222477, 14022076>>,
       <<76577203, 58983987>>, <<51439801, 13745354>>, <<38124202, 54395869>>, <<14514198, 60667607>>, <<108387404, 1620722>>,
       <<15847292, 38205651>>, <<100296242, 886910>>, <<73187194, 19891913>>, <<129512769, 45225598>>, <<102148503, 48608009>>,
       <<130663613, 43579440>>, <<18333338, 5045484>>, <<67158722, 25080412>>, <<76850156, 54054773>>, <<41775463, 29337927>>,
       <<67515877, 45450344>>, <<47891403, 50909468>>, <<70919838, 21722323>>, <<113376, 8314840>>, <<59366424, 48181993>>,
       <<60337867, 23502380>>, <<40909454, 36191498>>, <<53606929, 22774409>>, <<105104199, 49065547>>, <<91726124, 38347014>>,
       <<66075271, 7589701>>, <<86928559, 61593344>>, <<50675005, 25661466>>, <<27368880, 37372159>>, <<520181, 66761967>>,
       <<37261693, 42649894>>, <<80284239, 48471934>>, <<118334795, 49564251>>, <<111323035, 48880790>>, <<68579918, 13346561>>,
       <<132475332, 61962187>>, <<61952349, 40321178>>, <<112017241, 34689408>>, <<54890398, 62912987>>, <<99942629, 47790172>>,
       <<132552312, 66275766>>, <<40981583, 47170277>>, <<22859000, 30157927>>, <<83219515, 44885120>>, <<71263732, 13244680>>,
       <<48240808, 35312060>>, <<472344, 45536597>>, <<52232525, 38879265>>, <<57159232, 65116579>>, <<54392012, 22549262>>,
       <<115594388, 41716536>>, <<78440601, 65396663>>, <<98493101, 46942901>>, <<120515328, 64927490>>, <<100498673, 4546338>>,
       <<66129349, 66278960>>, <<100095332, 16618260>>, <<85947046, 64894565>>, <<87073138, 19521029>>, <<84513596, 1394275>>,
       <<54626477, 48404572>>, <<84458120, 10474686>>, <<85058137, 52268226>>, <<125777843, 26663527>>, <<105021840, 18136754>>,
       <<113584177, 11955516>>, <<103012078, 4926652>>, <<109431184, 52081676>>, <<81263787, 679683>>, <<46902396, 61247567>>,
       <<35511763, 53572829>>, <<95028839, 27591133>>, <<117298519, 45971748>>, <<73047563, 20378871>>, <<20410485, 31009043>>,
       <<111800050, 17404741>>, <<65034271, 11383133>>, <<62693453, 34247428>>, <<6091882, 18174454>>, <<68488746, 6618953>>,
       <<99958339, 39636926>>, <<56720118, 4681131>>, <<47671092, 4496220>>, <<88160047, 29694566>>, <<2649644, 11015165>>,
       <<68070345, 47663671>>, <<126987029, 10846614>>, <<92670307, 6244710>>, <<53945289, 42679390>>, <<92463698, 18508328>>,
       <<81200909, 20428158>>, <<28036659, 35439707>>, <<27878140, 15920472>>, <<118920301, 22410698>>, <<36113858, 4600592>>,
       <<10050864, 46922184>>, <<111491658, 61091868>>, <<70222415, 44210309>>, <<49420063, 31402695>>, <<68654907, 37423320>>,
       <<98881648, 3338154>>, <<22622882, 19923028>>, <<87653168, 49330815>>, <<95755892, 66865010>>, <<109387910, 37328787>>,
       <<36206659, 23880795>>, <<81828029, 49650151>>, <<31153797, 26344197>>, <<75302141, 26824462>>, <<23134166, 32455457>>,
       <<106000816, 17416215>>, <<116328902, 40963356>>, <<44244009, 48053456>>, <<29839092, 17365595>>, <<129357491, 40933067>> >>,
    \* random.seed(2)
    <<
       <<128316747, 57922286>>, <<127215251, 56979135>>, <<7590196, 6146151>>, <<11391326, 24230156>>, <<112138761, 11347009>>,
       <<98780219, 54288523>>, <<89889692, 57299855>>, <<41357375, 16883469>>, <<81328449, 14241763>>, <<81443550, 2398097>>,
       <<78007882, 45717657>>, <<21257788, 67089992>>, <<57803500, 42847086>>, <<52818946, 53933343>>, <<97041038, 57730004>>,
       <<133522421, 34162938>>, <<127425703, 24968543>>, <<73038206, 62794548>>, <<59707318, 33693165>>, <<36002662, 60479031>>,
       <<4821681, 58454033>>, <<3683586, 24428594>>, <<62396997, 62535163>>, <<42743665, 60918078>>, <<51004739, 28428050>>,
       <<119693954, 59328568>>, <<70565342, 11038631>>, <<75230427, 11907557>>, <<31691947, 15475483>>, <<3202177, 11859477>>,
       <<43639945, 11649344>>, <<18347213, 34236707>>, <<68481085, 24138481>>, <<134041039, 34476333>>, <<90527132, 37573603>>,
       <<24406620, 66785242>>, <<119933141, 29906233>>, <<106939306, 27828099>>, <<98569726, 35256696>>, <<121680939, 60966931>>,
       <<102392756, 24444774>>, <<105998133, 39828141>>, <<47484484, 24285783>>, <<131664446, 57644287>>, <<129104158, 29915048>>,
       <<21633837, 64084476>>, <<101200713, 26834384>>, <<95985928, 49565950>>, <<61928958, 43950331>>, <<71183139, 16770623>>,
       <<65768555, 18730234>>, <<124128859, 33424605>>, <<67221749, 34587385>>, <<111605327, 53433167>>, <<47502902, 44404968>>,
       <<118494244, 30513647>>, <<120755768, 60611159>>, <<61876005, 23540098>>, <<76196084, 48713331>>, <<123524660, 37418751>>,
       <<97143161, 30638626>>, <<65311494, 44217044>>, <<29770969, 63122363>>, <<43576099, 54672494>>, <<93894915, 56037673>>,
       <<22289495, 58834084>>, <<121861710, 41362285>>, <<35988807, 51874081>>, <<122323062, 32196561>>, <<41548859, 20353899>>,
       <<128494913, 53637355>>, <<94785338, 55772018>>, <<67679130, 37727845>>, <<69490927, 34048131>>, <<87431360, 41326189>>,
       <<78912603, 27291197>>, <<41855036, 49051873>>, <<27892923, 32809956>>, <<68704935, 24601991>>, <<125380075, 45918020>>,
       <<83653223, 59194685>>, <<10116710, 52632129>>, <<110112223, 22914920>>, <<97435264, 565178>>, <<121823206, 54697716>>,
       <<25689639, 66912140>>, <<99963045, 7124070>>, <<7886485, 38548335>>, <<87632087, 3282303>>, <<36654825, 39708336>>,
       <<30415955, 45800300>>, <<117506435, 61461046>>, <<14262778, 50624899>>, <<70110330, 9160352>>, <<114614290, 17840301>>,
       <<32860791, 55347868>>, <<28250004, 63322646>>, <<118189683, 4052356>>, <<56763045, 60261603>>, <<96228889, 50963080>>,
       <<4277931, 3811542>>, <<48634721, 24173853>>, <<23069476, 16743775>>, <<90297049, 1573212>>, <<11127076, 7732489>>,
       <<128119165, 4527606>>, <<3401710, 2743046>>, <<97901565, 61648218>>, <<2838016, 25038134>>, <<34318138, 8575649>>,
       <<109166577, 62811567>>, <<21088059, 49310723>>, <<24661005, 35104070>>, <<92810945, 129939>>, <<51749776, 39557873>>,
       <<5792970, 53295035>>, <<132875758, 16631388>>, <<20323262, 65150443>>, <<4867942, 281596>>, <<46197876, 62979253>>,
       <<82576045, 42128010>>, <<99651243, 50175848>>, <<15182025, 19194922>>, <<45260066, 32800197>>, <<4135363, 20695408>>,
       <<60217221, 37010761>>, <<102806744, 40611326>>, <<99313960, 3071737>>, <<121067096, 17712859>>, <<101423257, 26967964>>,
       <<115755512, 41714542>>, <<94669822, 10298228>>, <<63455391, 64342908>>, <<30269798, 6271568>>, <<88694899, 46130328>>,
       <<42453862, 56264167>>, <<13696799, 1624291>>, <<60105632, 52909254>>, <<117408707, 63625527>>, <<17117654, 34781591>>,
       <<78511424, 52416024>>, <<52741198, 32676764>>, <<69095648, 22009077>>, <<19304463, 58682894>>, <<128812939, 22887547>>,
       <<34775333, 17571610>>, <<81346403, 65141474>>, <<56338635, 43843202>>, <<2420377, 46940892>>, <<74886797, 64357397>>,
       <<18866902, 45000606>>, <<7621016, 16976322>>, <<4503843, 8838366>>, <<21631202, 11456205>>, <<12867714, 30426482>>,
       <<85238417, 15546108>>, <<68217392, 61498426>>, <<131998584, 47519350>>, <<125376849, 2107307>>, <<133482917, 16559820>>,
       <<31202110, 47906835>>, <<59686282, 4935700>>, <<33659224, 5397513>>, <<79354533, 15314458>>, <<83773880, 53122274>>,
       <<107402026, 41869856>>, <<95227250, 24147716>>, <<34441515, 45940085>>, <<56776370, 18705732>>, <<70624018, 50377134>>,
       <<647571, 10141186>>, <<4764650, 25820321>>, <<54858331, 10753239>>, <<14921651, 34365230>>, <<97142721, 5893591>>,
       <<32328422, 6839147>>, <<13391317, 1328875>>, <<24395424, 50370919>>, <<31074817, 7061483>>, <<29172711, 1640147>>,
       <<69892051, 44928692>>, <<62331130, 30457876>>, <<41570729, 35939034>>, <<86135402, 25501550>>, <<28514521, 45948540>>,
       <<121676782, 51037961>>, <<129267329, 14102291>>, <<97835468, 54095097>>, <<58214774, 28561462>>, <<68652548, 1430937>>,
       <<77990741, 39684349>>, <<6876610, 59152238>>, <<56105209, 62336126>>, <<70472968, 39013134>>, <<24323615, 61781516>>,
       <<12587849, 44512780>>, <<107730558, 32199017>>, <<49148380, 1307474>>, <<69687144, 64469468>>, <<123674972, 7958505>>,
       <<81941310, 24594246>>, <<38866872, 46331603>>, <<132005963, 62575481>>, <<49959423, 20687952>>, <<2557532, 58676434>>,
       <<91980841, 27665917>>, <<13577717, 7047539>>, <<41060204, 13313818>>, <<112824990, 52032031>>, <<90271052, 55391250>>,
       <<2110180, 54496451>>, <<60589031, 4025912>>, <<55119781, 42768130>>, <<65211420, 31094209>>, <<27950424, 59696146>>,
       <<79020024, 41175088>>, <<9903834, 357572>>, <<38166066, 1620140>>, <<50050073, 20523325>>, <<125529872, 48557625>>,
       <<10274128, 14707932>>, <<101332252, 32913233>>, <<25818005, 7769083>>, <<76712510, 25058080>>, <<52583951, 48044891>>,
       <<62172924, 9372780>>, <<101143863, 23148470>>, <<53021714, 59571980>>, <<16338254, 17056541>>, <<16343706, 8251607>>,
       <<10805965, 41375397>>, <<114094581, 22446786>>, <<86032435, 26246570>>, <<128804534, 14227742>>, <<92966251, 7073346>>,
       <<3310986, 41485490>>, <<88470912, 31566297>>, <<104315620, 2897791>>, <<97108979, 47365674>>, <<66833653, 19512093>>,
       <<47994194, 64397636>>, <<61342295, 9493655>>, <<107202663, 25159952>>, <<36096850, 32494216>>, <<70639292, 58102412>>,
       <<64096956, 48287969>>, <<128137241, 48849450>>, <<107958026, 28116329>>, <<125098151, 33025718>>, <<112206768, 45649031>>,
       <<39830945, 26485977>>, <<31088498, 10495794>>, <<65604212, 40034173>>, <<34816795, 36813312>>, <<57398725, 46682169>>,
       <<91152656, 46922793>>, <<123289751, 5658008>>, <<78638244, 48841890>>, <<109770405, 38637999>>, <<12877830, 4775457>>,
       <<47789192, 11820178>>, <<133915472, 36592058>>, <<19663037, 54110174>>, <<55937659, 60277503>>, <<8971031, 53591160>>,
       <<11562770, 61160742>>, <<120192022, 45724943>>, <<132692615, 54345466>>, <<86984104, 2521401>>, <<17248991, 65358306>>,
       <<39779788, 26212323>>, <<31098199, 47540131>>, <<90024168, 59401855>>, <<91415561, 22106643>>, <<58900891, 11578328>>,
       <<70329387, 19259460>>, <<15041816, 10470200>>, <<72597462, 66215396>>, <<127498616, 65019013>>, <<101438712, 28434689>>,
       <<12905633, 22068322>>, <<69323639, 16683328>>, <<96014640, 34505093>>, <<34528922, 11379375>>, <<120110995, 10570395>>,
       <<61866448, 63577991>>, <<94386095, 15733475>>, <<54245891, 58684567>>, <<133564495, 24062098>>, <<105067749, 51293835>>,
       <<76965867, 48917293>>, <<19430032, 31316969>>, <<59214614, 48242447>>, <<3943975, 54340182>>, <<79881583, 25719562>>,
       <<118355543, 49442673>>, <<24216165, 26364153>>, <<68474060, 3595178>>, <<64754460, 18384482>>, <<54346728, 17026962>>,
       <<95356337, 49073187>>, <<125717708, 27658616>>, <<94676183, 43481744>>, <<63417766, 24166355>>, <<129114422, 36747332>>,
       <<44389493, 47866039>>, <<100074449, 61201174>>, <<88380364, 5463564>>, <<102221412, 55007795>>, <<114363332, 48706891>>,
       <<30198838, 35759260>>, <<83382633, 12608124>>, <<54052684, 54780314>>, <<89519450, 25672873>>, <<131162135, 59118668>>,
       <<85205553, 61402589>>, <<1557703, 21000642>>, <<62350685, 35136408>>, <<95506178, 60848494>>, <<118543907, 31293373>>,
       <<87252936, 11903019>>, <<109531048, 6337082>>, <<2300142, 27039616>>, <<126598129, 14530894>>, <<97906951, 38202896>>,
       <<81395529, 25889636>>, <<121510400, 14461907>>, <<118739702, 65269332>>, <<13483161, 26171393>>, <<109470826, 37428179>>,
       <<102945096, 53793923>>, <<26781543, 18415327>>, <<99890965, 61833246>>, <<78682115, 38938085>>, <<25701946, 32870165>>,
       <<107936473, 41065650>>, <<18505018, 569371>>, <<82184696, 45546511>>, <<58303910, 32350245>>, <<34049844, 34456456>>,
       <<75979934, 11647872>>, <<62691339, 47829410>>, <<27514297, 65255709>>, <<129759120, 51013436>>, <<9774455, 23504048>>,
       <<407657, 60778975>>, <<65152389, 35780178>>, <<112365940, 44901738>>, <<88369229, 4391918>>, <<101290037, 39699021>>,
       <<65095658, 62071319>>, <<90570438, 61891121>>, <<44948260, 30823482>>, <<35828786, 58889497>>, <<67498190, 30891598>>,
       <<3694720, 66242280>>, <<10711727, 41170200>>, <<101194763, 23329473>>, <<23313570, 50977515>>, <<100697618, 62982860>>,
       <<105277161, 66956478>>, <<54289856, 17132415>>, <<90596051, 41951901>>, <<105686030, 55931015>>, <<115967351, 48289094>>,
       <<18101979, 3629210>>, <<21819795, 33519709>>, <<51225996, 66591839>>, <<62365165, 45343950>>, <<39569919, 10458789>>,
       <<1395896, 18968644>>, <<74815870, 31366145>>, <<129776968, 122132>>, <<49185386, 2282858>>, <<72209059, 57044808>>,
       <<51315350, 37869952>>, <<59431674, 13718067>>, <<116835687, 45393616>>, <<41396833, 33438865>>, <<87116062, 8951269>>,
       <<64932729, 46280130>>, <<72285530, 47721611>>, <<122769375, 20314404>>, <<10296380, 17312927>>, <<110645126, 21010361>>,
       <<40824913, 22394701>>, <<86746027, 63646163>>, <<106815968, 20949561>>, <<87699130, 43135590>>, <<52743079, 34768076>>,
       <<112837483, 61773476>>, <<12475376, 34122136>>, <<85002020, 14133964>>, <<52496017, 40009787>>, <<71197939, 56918648>>,
       <<114211379, 10035346>>, <<107087611, 33867853>>, <<84401499, 5981897>>, <<41349701, 2749524>>, <<31261163, 63725330>>,
       <<61409739, 37668401>>, <<31153219, 35073264>>, <<37243612, 4111746>>, <<128547652, 7510346>>, <<15027830, 45323820>>,
       <<109872829, 52840750>>, <<50897254, 57485261>>, <<48936237, 14342279>>, <<42733785, 23896284>>, <<10386514, 22462243>>,
       <<61388531, 24340405>>, <<22346873, 33392274>>, <<59325439, 58344825>>, <<39189853, 30941318>>, <<120067583, 8983147>>,
       <<123714177, 48216760>>, <<59323763, 66486545>>, <<85848373, 14489078>>, <<124774465, 18323017>>, <<43785399, 10669291>>,
       <<13361963, 59573700>>, <<31922596, 31466687>>, <<25440460, 50487831>>, <<91062789, 56788703>>, <<50169020, 12437582>>,
       <<47794653, 9411651>>, <<106716198, 9085266>>, <<31295827, 18027830>>, <<108519914, 36950126>>, <<84947294, 25367577>>,
       <<53722003, 54257059>>, <<110530864, 50292524>>, <<45936453, 18840435>>, <<117921187, 48323024>>, <<124275673, 39936319>>,
       <<67458678, 38980689>>, <<92607991, 49131436>>, <<127343379, 21507502>>, <<99664703, 26804939>>, <<100798459, 47903700>>,
       <<116676833, 47278734>>, <<125570199, 42422480>>, <<101137663, 65063689>>, <<131408441, 48074424>>, <<39138690, 35697850>>,
       <<83548683, 42747899>>, <<90014184, 4876739>>, <<49316193, 20708830>>, <<53039864, 32480681>>, <<23457799, 17308850>>,
       <<128541968, 60487510>>, <<47513548, 29577207>>, <<63972734, 5885278>>, <<119932272, 61976061>>, <<25024907, 21131188>>,
       <<128938877, 25435204>>, <<17053131, 64960705>>, <<3762059, 6997398>>, <<47080895, 11212925>>, <<48207625, 5169865>>,
       <<123164135, 58948671>>, <<118540325, 49145908>>, <<102214978, 43738601>>, <<58576361, 562773>>, <<72838136, 21501172>>,
       <<31778697, 55369566>>, <<111874461, 39905952>>, <<52332983, 36315809>>, <<38205522, 31467178>>, <<85604873, 60444961>>,
       <<20210316, 24147213>>, <<42459848, 13564669>>, <<124309444, 33450506>>, <<12756778, 65143653>>, <<19085754, 52605272>>,
       <<27426804, 22235282>>, <<33685969, 9487009>>, <<56424804, 24186840>>, <<33578085, 5982183>>, <<45995060, 12583946>>,
       <<33082172, 47468598>>, <<32224123, 48857706>>, <<81953983, 3144208>>, <<45158639, 63088782>>, <<50034896, 43484821>>,
       <<103054594, 41033798>>, <<8279668, 57867766>>, <<19333042, 11910024>>, <<114195611, 4231985>>, <<57683743, 29769619>>,
       <<104529236, 18247706>>, <<17823234, 21540476>>, <<70194541, 38707805>>, <<113464176, 7812467>>, <<45371193, 43499848>>,
       <<103103188, 47686971>>, <<81923288, 64249062>>, <<52958772, 15284401>>, <<133862216, 3633328>>, <<52653988, 51443980>>,
       <<63591470, 32872679>>, <<83145963, 58476719>>, <<42525383, 36549581>>, <<112426000, 41710211>>, <<80199932, 6076539>>,
       <<78920103, 34254214>>, <<72287842, 44605757>>, <<132195550, 33266540>>, <<132731951, 26930459>>, <<112849105, 46409064>>,
       <<61012185, 11368439>>, <<55269488, 25903755>>, <<70433006, 30376565>>, <<6195135, 58978715>>, <<14529650, 30288331>>,
       <<133581220, 39684110>>, <<17208124, 7949219>>, <<125813607, 61827896>>, <<91231701, 33554739>>, <<122821338, 11750372>>,
       <<10379929, 26348137>>, <<41045169, 30715251>>, <<107096048, 47468127>>, <<1187216, 16974951>>, <<14221707, 44875333>>,
       <<47062266, 14803513>>, <<23238220, 1673703>>, <<19711244, 28675945>>, <<89894250, 65991113>>, <<12337686, 22549331>>,
       <<130393105, 55010780>>, <<87155819, 31234323>>, <<6679563, 57594404>>, <<120624201, 31866426>>, <<32417142, 4336639>>,
       <<64621006, 9361521>>, <<74996381, 2038300>>, <<18607079, 46691160>>, <<67398627, 36383374>>, <<8094513, 3244319>>,
       <<26790803, 36651879>>, <<123288853, 417795>>, <<110333493, 54642696>>, <<70180424, 22655058>>, <<91515783, 35465384>>,
       <<117508043, 16004459>>, <<18785945, 24932381>>, <<66048935, 101188>>, <<17685000, 36247775>>, <<15639115, 16555760>>,
       <<14527116, 31297535>>, <<28425419, 53549104>>, <<7134554, 41341496>>, <<28885936, 42035398>>, <<50886192, 22598306>>,
       <<83575753, 43460112>>, <<115240108, 26429954>>, <<121357633, 62744622>>, <<96312600, 35198427>>, <<68060157, 52408515>>,
       <<123075960, 45326854>>, <<21877053, 34290706>>, <<14152647, 55922797>>, <<109764446, 10159535>>, <<84172202, 64234894>>,
       <<28227938, 11641416>>, <<50640372, 13548761>>, <<39915521, 22859848>>, <<57829496, 9645098>>, <<57408911, 8751107>>,
       <<53439571, 21051386>>, <<107070835, 20085378>>, <<108918338, 6664877>>, <<75492473, 6708013>>, <<63455442, 18278553>>,
       <<38179473, 35392014>>, <<102724140, 32810936>>, <<132457657, 18781140>>, <<30749681, 28230908>>, <<94367012, 9235120>>,
       <<93825703, 36710739>>, <<88346077, 6978141>>, <<4109088, 40396550>>, <<74051242, 50450106>>, <<27113789, 14249906>>,
       <<26084380, 26271317>>, <<77817144, 2624189>>, <<86582719, 9267620>>, <<83944123, 1577978>>, <<99616225, 17616799>>,
       <<94307230, 48440441>>, <<63773619, 36217290>>, <<6414472, 49426830>>, <<103645965, 57797804>>, <<110472171, 15068056>>,
       <<112135653, 9694992>>, <<80275320, 20973887>>, <<5123000, 46240278>>, <<26291197, 66917098>>, <<14541645, 9423289>> >>,
    \* random.seed(3)
    <<
       <<31939071, 39771458>>, <<73045210, 8752525>>, <<49654541, 61468015>>, <<81056775, 31813194>>, <<83982757, 38980323>>,
       <<8795134, 40641096>>, <<1767377, 60989770>>, <<112403197, 31489649>>, <<34809906, 36962531>>, <<31451369, 12867728>>,
       <<133633187, 48126990>>, <<63117699, 36304142>>, <<112267955, 36885123>>, <<63935045, 26651250>>, <<85774273, 57782215>>,
       <<20215394, 15564022>>, <<85209555, 10175205>>, <<116507068, 62131766>>, <<70220193, 26168210>>, <<99489140, 1016480>>,
       <<90115322, 52159336>>, <<8594154, 10697148>>, <<101767940, 64256540>>, <<79336043, 2871523>>, <<40435460, 52350047>>,
       <<4162326, 55268881>>, <<116169099, 18081253>>, <<63451308, 39912964>>, <<96478913, 61750665>>, <<117952257, 26011971>>,
       <<95848836, 52889089>>, <<123627770, 28651115>>, <<53011090, 48863706>>, <<107496155, 38715752>>, <<59676027, 64699236>>,
       <<125572324, 9002594>>, <<117959486, 24529609>>, <<13080096, 2408311>>, <<18249431, 33211063>>, <<29123494, 17312826>>,
       <<129584550, 45099923>>, <<58540654, 52275965>>, <<84107309, 57393217>>, <<40403052, 28262798>>, <<68081000, 55933702>>,
       <<51790092, 38522013>>, <<47098408, 35843051>>, <<78527317, 27351953>>, <<78416948, 15595192>>, <<121359907, 22599917>>,
       <<91534092, 61453653>>, <<124680968, 1923364>>, <<114944138, 18769389>>, <<133008378, 40655840>>, <<90096809, 46678604>>,
       <<21890860, 46883317>>, <<115512814, 21903681>>, <<129470842, 36357296>>, <<121426239, 38383290>>, <<76384316, 6984409>>,
       <<95806898, 43990611>>, <<28336715, 42478293>>, <<111616526, 66308391>>, <<76978209, 17923764>>, <<38246343, 8350680>>,
       <<8517534, 32346567>>, <<114614220, 42866353>>, <<132849514, 32447722>>, <<11880697, 23090831>>, <<107454085, 4470256>>,
       <<55091253, 60203104>>, <<20235386, 1350589>>, <<39445415, 28664998>>, <<103185500, 27863419>>, <<117140807, 7980400>>,
       <<5931089, 40600086>>, <<82481159, 51112428>>, <<6031777, 25354048>>, <<96427448, 39350966>>, <<44419913, 36967014>>,
       <<118233108, 61866476>>, <<131618703, 18728305>>, <<67836374, 15834440>>, <<134017602, 2416780>>, <<41563211, 485380>>,
       <<10330833, 7255763>>, <<80498801, 35942042>>, <<4211451, 63679298>>, <<26492546, 65191473>>, <<54752261, 19569776>>,
       <<81935510, 17674676>>, <<20964673, 46287203>>, <<5695639, 65759054>>, <<116471330, 22804519>>, <<42121619, 24172383>>,
       <<128669090, 9282903>>, <<120347619, 57828202>>, <<50706013, 25283346>>, <<61795134, 58377431>>, <<69803014, 25916969>>,
       <<86421280, 58172146>>, <<79946821, 45699179>>, <<75062749, 6883545>>, <<83231920, 65289095>>, <<126248047, 54459650>>,
       <<68051987, 18206677>>, <<57873550, 42566508>>, <<96678539, 48024538>>, <<31894912, 62843149>>, <<40411194, 29356487>>,
       <<131237734, 17329714>>, <<69944521, 20333525>>, <<73609091, 22743735>>, <<1537797, 52908391>>, <<55728588, 66267045>>,
       <<77841613, 21130997>>, <<2691453, 25267598>>, <<82651000, 39540753>>, <<84849835, 8943492>>, <<8063869, 42515669>>,
       <<84200298, 22310398>>, <<62579073, 23683782>>, <<91171605, 61561551>>, <<47322081, 40860165>>, <<94885256, 18718300>>,
       <<99057285, 32849981>>, <<2977280, 39552418>>, <<8130480, 64078297>>, <<90733910, 1426235>>, <<129292686, 24774232>>,
       <<33705061, 42142309>>, <<61245177, 20041142>>, <<79547072, 40362939>>, <<42953080, 11906523>>, <<48849225, 12431651>>,
       <<41965945, 50875708>>, <<49547007, 56629207>>, <<79942965, 17725950>>, <<40319538, 52834937>>, <<50621604, 7037822>>,
       <<103652782, 54563321>>, <<3613302, 65187839>>, <<76404515, 45884534>>, <<98673274, 8819499>>, <<41609736, 33555151>>,
       <<29868523, 43870626>>, <<107885239, 18077660>>, <<32037124, 21997375>>, <<25151642, 45504078>>, <<58416161, 43589823>>,
       <<93692887, 6511062>>, <<13668960, 40313914>>, <<43213542, 63696315>>, <<44795656, 45293610>>, <<111875696, 15063280>>,
       <<58845176, 54342408>>, <<114827989, 64470864>>, <<22720945, 5365242>>, <<45192482, 49799466>>, <<87272712, 14631056>>,
       <<118769035, 38144783>>, <<60545910, 18159650>>, <<30202725, 52815141>>, <<16229517, 2275588>>, <<71085416, 64262175>>,
       <<25609253, 21148747>>, <<108283807, 56116768>>, <<112538394, 38576543>>, <<24640537, 57963778>>, <<37392004, 22824373>>,
       <<108344095, 55562545>>, <<86159360, 5740091>>, <<108214095, 41562669>>, <<46343073, 39559383>>, <<17406581, 28271111>>,
       <<39183911, 34789075>>, <<106550343, 57040667>>, <<36396424, 31186884>>, <<46486884, 42559059>>, <<55956135, 19488330>>,
       <<56340734, 38140132>>, <<54965128, 2385334>>, <<123562502, 27733787>>, <<20937678, 13392987>>, <<625695, 32034585>>,
       <<126603265, 55870785>>, <<118108681, 41786037>>, <<132461308, 34234965>>, <<58297780, 37505231>>, <<127528472, 66153187>>,
       <<124470462, 48134417>>, <<29808514, 2168834>>, <<100062404, 30646688>>, <<112299795, 50558506>>, <<88984635, 50198398>>,
       <<69661010, 64650403>>, <<38794538, 36497897>>, <<45777467, 59707032>>, <<30530014, 57816375>>, <<9135881, 57578136>>,
       <<79010985, 65160300>>, <<38521988, 8052816>>, <<108742113, 16410395>>, <<6050107, 2358506>>, <<121280384, 53885308>>,
       <<93107590, 34379721>>, <<123997692, 13318991>>, <<120335207, 59294718>>, <<120752312, 28849210>>, <<77437375, 3312282>>,
       <<1764224, 32282573>>, <<100032240, 8107686>>, <<23061503, 33768318>>, <<40250295, 16042119>>, <<88972409, 1331779>>,
       <<70459493, 36037215>>, <<55532645, 3573320>>, <<126036145, 61276081>>, <<82163249, 7622715>>, <<45815578, 8415831>>,
       <<33886599, 65229170>>, <<115650680, 36304601>>, <<64048363, 54462293>>, <<105001899, 4118345>>, <<47223384, 14817850>>,
       <<26485677, 8202114>>, <<71757768, 59568351>>, <<109630496, 8000082>>, <<22991800, 16069660>>, <<106256406, 18371644>>,
       <<123717406, 59702278>>, <<108186339, 8622502>>, <<110528132, 61790694>>, <<1007266, 32715661>>, <<84370231, 38312135>>,
       <<115770114, 26862172>>, <<6701739, 50767113>>, <<36426293, 16660355>>, <<36049017, 41479257>>, <<70768468, 34874599>>,
       <<56771952, 3420730>>, <<63471565, 21683958>>, <<104219751, 54997461>>, <<242752, 57513802>>, <<7359639, 52025846>>,
       <<17027302, 3099413>>, <<16727050, 3344256>>, <<9182732, 32401028>>, <<130821017, 2215336>>, <<114682194, 47829779>>,
       <<11559905, 34588213>>, <<67393406, 32882775>>, <<42398876, 10538887>>, <<42222186, 4816748>>, <<47149286, 25890405>>,
       <<86827275, 26148031>>, <<78733880, 20409028>>, <<48430398, 17779182>>, <<25646591, 66305084>>, <<44127608, 28769547>>,
       <<16610118, 8563768>>, <<74561430, 234137>>, <<96105640, 48522357>>, <<51034688, 53371190>>, <<10724161, 38032885>>,
       <<23965400, 2883101>>, <<50100065, 30924962>>, <<81125874, 43638960>>, <<105041724, 36327616>>, <<51038261, 42726631>>,
       <<107529997, 2915164>>, <<83607780, 59494490>>, <<57927512, 3561116>>, <<49985385, 42107073>>, <<66592340, 51005663>>,
       <<94339045, 21135843>>, <<56440419, 63772817>>, <<93163640, 28071161>>, <<61852886, 1202936>>, <<32894523, 14673287>>,
       <<71918876, 18125484>>, <<93304023, 39587656>>, <<9607438, 53897634>>, <<57027575, 15061977>>, <<57157298, 8748706>>,
       <<118067213, 1885384>>, <<125692764, 21848291>>, <<50229064, 65015834>>, <<120507950, 37518901>>, <<106155068, 58408276>>,
       <<35189167, 8150436>>, <<62296247, 46342387>>, <<16528382, 63019381>>, <<109148769, 49091978>>, <<88891005, 57028560>>,
       <<119097228, 35579748>>, <<106363440, 25261759>>, <<89598598, 7289998>>, <<98480268, 21366791>>, <<75677854, 35699991>>,
       <<13842309, 54466949>>, <<78887646, 48089004>>, <<657838, 31779243>>, <<19262708, 15835697>>, <<103925326, 26083439>>,
       <<5947571, 35380222>>, <<12321036, 37870985>>, <<13327765, 44238629>>, <<118174403, 25216875>>, <<24045589, 54992121>>,
       <<3152421, 22916598>>, <<112948992, 57196924>>, <<16278392, 1709091>>, <<113272146, 7724007>>, <<90400306, 32341178>>,
       <<112230441, 46731204>>, <<127830483, 19092124>>, <<77722321, 20091193>>, <<107206041, 5958272>>, <<4867978, 66856896>>,
       <<103001172, 37825061>>, <<68628979, 35501049>>, <<95986872, 15992393>>, <<14326896, 37209340>>, <<100524370, 6705078>>,
       <<125434834, 37132649>>, <<8206004, 36917795>>, <<43519677, 58345965>>, <<75695758, 12107928>>, <<111140242, 5190049>>,
       <<32497609, 66998112>>, <<24128648, 43350506>>, <<33549879, 30476892>>, <<82675567, 46983812>>, <<101138870, 63258403>>,
       <<52845539, 16971565>>, <<49321169, 40228645>>, <<53236073, 62999438>>, <<47014387, 37355391>>, <<56132222, 64848259>>,
       <<11175033, 25187607>>, <<67150419, 15788305>>, <<130601426, 62376983>>, <<55409288, 56613220>>, <<100315537, 64900395>>,
       <<21558117, 27868367>>, <<92722721, 38145007>>, <<101484174, 38911399>>, <<90443395, 62004032>>, <<69402923, 46007111>>,
       <<64923919, 10480701>>, <<86295691, 26914139>>, <<120447162, 59562819>>, <<20042384, 10910785>>, <<12866209, 33417419>>,
       <<100415638, 32447218>>, <<123025899, 46884866>>, <<69424640, 63799861>>, <<59465637, 39357215>>, <<96490552, 57586467>>,
       <<24979400, 9145917>>, <<35884097, 50469378>>, <<26733465, 9835152>>, <<78600225, 34602557>>, <<42258119, 62732640>>,
       <<31179472, 57142591>>, <<92762221, 36106880>>, <<127966611, 52313723>>, <<39710144, 45055886>>, <<94668231, 57397817>>,
       <<55458856, 39944875>>, <<114573550, 39230093>>, <<78470167, 66018621>>, <<35859422, 59687236>>, <<29206432, 20617676>>,
       <<3103752, 17991459>>, <<64356006, 53962022>>, <<51371849, 13463662>>, <<23118700, 38244599>>, <<48381512, 16027297>>,
       <<43223766, 32386445>>, <<103911975, 57968788>>, <<19275025, 28079484>>, <<133039018, 46811909>>, <<64369461, 47076110>>,
       <<80396505, 13808122>>, <<62821004, 38957837>>, <<112019690, 60515738>>, <<110275314, 43781594>>, <<74775548, 1863627>>,
       <<64598900, 66624972>>, <<96731927, 4856973>>, <<114977474, 63589358>>, <<53722297, 52553965>>, <<98460573, 59180019>>,
       <<128883764, 3076696>>, <<62732722, 61128983>>, <<30816592, 59793235>>, <<31511466, 43503311>>, <<96326500, 52165914>>,
       <<90644052, 4648248>>, <<128676508, 14587576>>, <<114606036, 17057222>>, <<32493011, 59738454>>, <<25450790, 52063115>>,
       <<34711795, 9226110>>, <<25123645, 41735545>>, <<94587838, 45308081>>, <<115238746, 2466890>>, <<120763742, 62664681>>,
       <<34226585, 11389008>>, <<116111614, 3021388>>, <<42066085, 12298845>>, <<56813732, 6104094>>, <<97840486, 53613106>>,
       <<11532714, 7916667>>, <<12434243, 17728538>>, <<111928074, 61320798>>, <<39159819, 2424343>>, <<47870240, 30357160>>,
       <<77886553, 49264208>>, <<90665063, 22591665>>, <<923914, 1971938>>, <<44936355, 22244549>>, <<58548637, 25479603>>,
       <<65216465, 5232229>>, <<28198643, 43238475>>, <<78531516, 49819556>>, <<128223202, 32882202>>, <<52468394, 8417156>>,
       <<73062297, 21395217>>, <<15995625, 59280668>>, <<36877830, 5116647>>, <<89312912, 29028694>>, <<15103387, 29421817>>,
       <<119076493, 35398838>>, <<121971971, 16839517>>, <<13006456, 35412577>>, <<126337475, 47023343>>, <<50227415, 45528554>>,
       <<103672356, 24725118>>, <<101646216, 30226620>>, <<39665905, 44486582>>, <<90716043, 44960701>>, <<87788912, 63365515>>,
       <<108186870, 54851450>>, <<35647120, 7191780>>, <<101225626, 63380909>>, <<129027040, 22718388>>, <<90305049, 37986793>>,
       <<71963157, 35277820>>, <<15206338, 44753716>>, <<66287548, 34137134>>, <<47265816, 3994530>>, <<96380852, 19758436>>,
       <<91072612, 48848137>>, <<76019769, 49812450>>, <<24424913, 43341211>>, <<86660065, 49002856>>, <<84675876, 10035588>>,
       <<24038988, 24882580>>, <<119442939, 61738984>>, <<87962448, 30483380>>, <<16526339, 7262241>>, <<125069995, 37566289>>,
       <<18976272, 61794545>>, <<44497191, 43283721>>, <<96700835, 43593169>>, <<80186072, 28194951>>, <<74480615, 20170663>>,
       <<86904208, 12542843>>, <<61431971, 32371469>>, <<41935352, 52493321>>, <<23673487, 47343097>>, <<9206836, 7208896>>,
       <<96077806, 12162603>>, <<101264650, 37160202>>, <<72898362, 38645168>>, <<99272627, 26296893>>, <<48214007, 6701131>>,
       <<35681255, 18175977>>, <<51456350, 3588500>>, <<117110361, 9161957>>, <<5652019, 32124945>>, <<67741270, 18204491>>,
       <<33178124, 46670592>>, <<103200196, 34542354>>, <<47527754, 58736918>>, <<44676066, 63420785>>, <<54135225, 30080344>>,
       <<72678647, 54301527>>, <<103577214, 4645828>>, <<47363364, 33420599>>, <<113666802, 66815872>>, <<15049952, 10172534>>,
       <<36304219, 39602203>>, <<13374622, 45733470>>, <<15124294, 37873458>>, <<104553336, 61065467>>, <<97615121, 7522420>>,
       <<24809600, 46853629>>, <<25389903, 38056884>>, <<55922532, 44972949>>, <<99766379, 26251964>>, <<109487866, 65995524>>,
       <<100488869, 8621891>>, <<79445660, 40795079>>, <<19659025, 57681574>>, <<53474949, 53566002>>, <<25989712, 36555533>>,
       <<70813436, 11430740>>, <<76285089, 12005028>>, <<27122279, 58288652>>, <<33574644, 24803424>>, <<104913024, 19664058>>,
       <<4038269, 56525605>>, <<107797835, 29852478>>, <<119614854, 27328551>>, <<127415948, 54660947>>, <<51425026, 21202877>>,
       <<74169575, 60811624>>, <<78256544, 20777240>>, <<85045976, 33407923>>, <<131127589, 35505847>>, <<92157936, 47442123>>,
       <<40185260, 60109545>>, <<115428694, 44804666>>, <<64971067, 2024933>>, <<80713706, 12783252>>, <<97554059, 42549702>>,
       <<318484, 7213044>>, <<103408918, 50731868>>, <<88843756, 15689783>>, <<66018015, 11617072>>, <<70281729, 41944386>>,
       <<61811753, 13348425>>, <<25962596, 52489325>>, <<71074718, 14219731>>, <<4974412, 54540902>>, <<67168864, 62146027>>,
       <<86699061, 63534011>>, <<59622500, 7487577>>, <<75967844, 19008791>>, <<128717737, 44124804>>, <<119728973, 10241430>>,
       <<18198284, 31355962>>, <<106350861, 5954923>>, <<83654942, 61976962>>, <<6792355, 1712424>>, <<48305096, 41496283>>,
       <<31328268, 33953991>>, <<10447013, 33460359>>, <<72327253, 1268366>>, <<124798673, 22792639>>, <<43368099, 22035011>>,
       <<116837976, 23072253>>, <<93235648, 46534448>>, <<18033047, 5403254>>, <<115197896, 56310619>>, <<80681755, 52032660>>,
       <<124416580, 2279307>>, <<96093467, 5366867>>, <<99283490, 66715377>>, <<46116253, 66964993>>, <<108270798, 13762889>>,
       <<125056021, 4250512>>, <<115623203, 13420342>>, <<58656464, 46911263>>, <<101582610, 14823638>>, <<65095834, 21193657>>,
       <<14646125, 52807160>>, <<5731306, 27412370>>, <<10461239, 56723979>>, <<26884181, 47367833>>, <<21585198, 26272729>>,
       <<66725006, 31761246>>, <<93855501, 4562383>>, <<72133397, 57162372>>, <<56654802, 13984732>>, <<87139822, 32817495>>,
       <<40889419, 1568288>>, <<62331425, 30707779>>, <<101616074, 46391549>>, <<53882758, 29418670>>, <<24238253, 30559764>>,
       <<120716939, 2499142>>, <<96595427, 17222024>>, <<49248882, 56961198>>, <<49791178, 30047684>>, <<71045624, 24261797>>,
       <<80057409, 26964961>>, <<30044233, 65077262>>, <<362461, 53968518>>, <<28050842, 17359274>>, <<105116675, 24805454>>,
       <<19257179, 57405222>>, <<61738510, 35824154>>, <<26212660, 10676544>>, <<28090082, 1491632>>, <<22919544, 39227055>> >>,
    \* random.seed(4)
    <<
       <<31681838, 20354023>>, <<13846710, 48400047>>, <<53158037, 32136985>>, <<20800026, 6046525>>, <<8927505, 1329908>>,
       <<53900633, 36869733>>, <<123205840, 19419677>>, <<107434895, 66439441>>, <<102698386, 3949159>>, <<29786695, 34919377>>,
       <<72031971, 24175626>>, <<37135715, 52327838>>, <<23174640, 55490419>>, <<14251680, 17563703>>, <<28776338, 63280931>>,
       <<124483672, 1720649>>, <<111255765, 42995886>>, <<108267045, 17465360>>, <<107434290, 18236683>>, <<25962489, 11060766>>,
       <<41587357, 19437457>>, <<84151240, 58204970>>, <<98233244, 64486448>>, <<114708960, 56943835>>, <<118118412, 24990877>>,
       <<11639126, 56692845>>, <<81316063, 22642696>>, <<90154243, 26033665>>, <<67907966, 16701620>>, <<23862593, 16597513>>,
       <<63563890, 18790320>>, <<11991844, 63389542>>, <<125438326, 54887191>>, <<116163318, 63230456>>, <<73502844, 56402495>>,
       <<40298301, 483944>>, <<121986505, 19591873>>, <<76821771, 47305503>>, <<118422615, 20922006>>, <<113822550, 51352226>>,
       <<68232585, 13094628>>, <<55558897, 28436111>>, <<80384671, 19341014>>, <<57853614, 30291088>>, <<21652085, 15651477>>,
       <<40951385, 17425161>>, <<109064294, 53511994>>, <<5803369, 5440882>>, <<6217233, 31049240>>, <<84067373, 66939211>>,
       <<37639108, 34820916>>, <<71755722, 43486415>>, <<63248773, 47035174>>, <<46015644, 9734996>>, <<133852504, 45216530>>,
       <<26249430, 4458610>>, <<55404360, 61306082>>, <<27201989, 42615410>>, <<84914856, 29605206>>, <<37085007, 12328143>>,
       <<47758795, 29254386>>, <<100252949, 39511597>>, <<43039451, 42576023>>, <<74964491, 13335349>>, <<121375118, 21712013>>,
       <<13553230, 56332948>>, <<8269186, 47523980>>, <<30718336, 18621286>>, <<102698337, 39070811>>, <<82601894, 57854487>>,
       <<31865593, 8197039>>, <<44435059, 62718652>>, <<23828974, 19523596>>, <<61608454, 1723092>>, <<5746020, 23963504>>,
       <<93588932, 5543885>>, <<120249390, 64724801>>, <<128142711, 19172071>>, <<98633649, 45312792>>, <<128831247, 21952796>>,
       <<2441088, 21663430>>, <<38788449, 21587318>>, <<129655232, 10261591>>, <<104050875, 43749785>>, <<55086670, 57805769>>,
       <<126608705, 58351595>>, <<83283505, 45636961>>, <<109780411, 5218136>>, <<39380857, 41455134>>, <<25691313, 60000939>>,
       <<59611762, 19595475>>, <<18312348, 16780395>>, <<51222133, 40185436>>, <<129092439, 10663911>>, <<44467303, 38459423>>,
       <<1261172, 24382317>>, <<6012577, 30520127>>, <<22758903, 24507541>>, <<105192563, 53978952>>, <<48684026, 66919970>>,
       <<38968001, 38349746>>, <<13032838, 29482720>>, <<131768073, 13907421>>, <<56901943, 61507274>>, <<27906126, 7624790>>,
       <<7964416, 4174788>>, <<7418297, 49467381>>, <<22638540, 39965666>>, <<90842197, 65137125>>, <<20084412, 40702699>>,
       <<5488480, 36656877>>, <<65856292, 39101991>>, <<33428086, 21571000>>, <<133900508, 2387327>>, <<16411238, 56025865>>,
       <<71033603, 19656683>>, <<103856620, 66901212>>, <<54938165, 43728952>>, <<132561130, 13439316>>, <<64124125, 13540739>>,
       <<32462190, 29448321>>, <<55112817, 33013444>>, <<4948498, 14700968>>, <<56535320, 29762922>>, <<33364644, 43448671>>,
       <<119359881, 28711650>>, <<111541256, 14476709>>, <<66918237, 12597011>>, <<4248039, 2470006>>, <<34144139, 17004539>>,
       <<32532917, 35277595>>, <<27926077, 51829222>>, <<31066928, 27993436>>, <<116730435, 17561533>>, <<19018889, 21811325>>,
       <<6881842, 59795708>>, <<124558504, 21106858>>, <<75879214, 7842073>>, <<132952150, 38232524>>, <<54084652, 64609408>>,
       <<120923751, 43819904>>, <<87774832, 58444982>>, <<106147126, 48140709>>, <<99955470, 2718127>>, <<66342215, 26002852>>,
       <<12469983, 28864030>>, <<28309376, 62406391>>, <<117280286, 38406727>>, <<120763991, 63360092>>, <<124094674, 11103535>>,
       <<45176289, 19877959>>, <<88168833, 31623646>>, <<107307698, 60444787>>, <<86234074, 21141785>>, <<109364117, 28184995>>,
       <<70870167, 14444377>>, <<87876666, 53780860>>, <<92067972, 53761204>>, <<36010488, 22718404>>, <<123856114, 26318878>>,
       <<128349602, 33312198>>, <<9983190, 57620309>>, <<130337262, 18795913>>, <<129087096, 42135038>>, <<89704671, 12835078>>,
       <<5978590, 26494564>>, <<120657673, 41577014>>, <<17130582, 51460437>>, <<129994562, 18081916>>, <<89548714, 57466189>>,
       <<8117905, 58390074>>, <<22450010, 46161015>>, <<85253730, 31177185>>, <<76397527, 31687682>>, <<100192803, 27093601>>,
       <<124484385, 26202137>>, <<29332138, 53553762>>, <<439298, 14173073>>, <<123797331, 10518810>>, <<1759631, 40937011>>,
       <<117631582, 17269731>>, <<15554488, 26560558>>, <<108699225, 51658348>>, <<105088418, 25574155>>, <<117826773, 14920675>>,
       <<73901408, 3583667>>, <<117938119, 63817759>>, <<27067615, 10865024>>, <<90124760, 40820841>>, <<44378167, 54923852>>,
       <<119688662, 37740146>>, <<103827325, 52635992>>, <<63285016, 61420370>>, <<70653372, 29503897>>, <<3542470, 5300872>>,
       <<4587984, 46669314>>, <<79790673, 7577696>>, <<65609816, 37635071>>, <<116060730, 17243721>>, <<81621175, 51949832>>,
       <<18624282, 2776713>>, <<48663279, 5347899>>, <<103022774, 58993502>>, <<70194031, 60735917>>, <<1416167, 19927201>>,
       <<112432709, 23280911>>, <<111073421, 5015359>>, <<11427432, 64415651>>, <<72931051, 30451974>>, <<51158164, 13780986>>,
       <<105681358, 65536331>>, <<41764446, 26080559>>, <<31366762, 50916278>>, <<65317325, 57409932>>, <<129691719, 26847435>>,
       <<12766746, 5180418>>, <<15361369, 61455304>>, <<83344072, 53576601>>, <<118828711, 24553954>>, <<68783182, 67081054>>,
       <<58244219, 27910093>>, <<115137866, 47730139>>, <<104231640, 29812399>>, <<8981564, 42184127>>, <<118289430, 63130371>>,
       <<26286900, 42744114>>, <<40574752, 62394447>>, <<112265341, 32123515>>, <<56702218, 7930421>>, <<107152571, 37466285>>,
       <<22464956, 24937851>>, <<117344835, 10926707>>, <<23669422, 47427529>>, <<20039641, 21914721>>, <<66337813, 57701637>>,
       <<45444097, 17355095>>, <<72727624, 65347961>>, <<121342535, 327429>>, <<95363267, 11321791>>, <<746535, 43493544>>,
       <<41851388, 8117008>>, <<73141746, 7438257>>, <<65297822, 52762346>>, <<96044415, 40332186>>, <<64994861, 35320032>>,
       <<10158178, 34944564>>, <<32942557, 27593612>>, <<113758933, 19693163>>, <<47887619, 15381954>>, <<102900696, 12107335>>,
       <<132312474, 57978647>>, <<84114325, 113581>>, <<90829613, 3551360>>, <<81810386, 60910494>>, <<42046732, 36512910>>,
       <<122512670, 61012133>>, <<62683604, 52509540>>, <<122327128, 38140591>>, <<41023702, 62863344>>, <<116437380, 34001448>>,
       <<105609136, 29578338>>, <<82275401, 41436997>>, <<59333026, 26293665>>, <<18880081, 16891047>>, <<103487524, 40069904>>,
       <<48610916, 66162358>>, <<88863769, 22819965>>, <<17885149, 29084979>>, <<11081030, 40642523>>, <<19319067, 45324487>>,
       <<108585129, 41749593>>, <<23846290, 19150607>>, <<121052753, 63050384>>, <<49927405, 13253136>>, <<77307059, 53277387>>,
       <<47035375, 45296247>>, <<83326395, 59273101>>, <<12544957, 5171495>>, <<54029003, 43331003>>, <<125653036, 60685566>>,
       <<24115654, 22122281>>, <<87812296, 24957356>>, <<43845243, 11718737>>, <<40343183, 59276204>>, <<3110008, 40518274>>,
       <<2697775, 35160670>>, <<127425259, 50636291>>, <<111370374, 5953105>>, <<107522421, 24093383>>, <<108347278, 54552507>>,
       <<127954113, 6603367>>, <<21268912, 12240756>>, <<78405809, 66238958>>, <<66470133, 44359469>>, <<77022786, 66606697>>,
       <<125884363, 5160546>>, <<102039282, 62123127>>, <<129986298, 66194700>>, <<15679899, 11544137>>, <<87450375, 32153915>>,
       <<90650185, 59480342>>, <<100019276, 14909714>>, <<82928700, 52792995>>, <<111570214, 44309558>>, <<40649860, 57228738>>,
       <<124530131, 46154747>>, <<54507350, 59125486>>, <<80400999, 15933903>>, <<120376478, 32872319>>, <<94434182, 14839077>>,
       <<41564085, 24670373>>, <<30919550, 50041274>>, <<43837852, 36052668>>, <<84127232, 35551643>>, <<133741143, 30325417>>,
       <<120664125, 53878382>>, <<53716205, 33976198>>, <<53775679, 65062910>>, <<109721824, 21013553>>, <<38087135, 29413184>>,
       <<55239244, 39469034>>, <<1769434, 16863348>>, <<24681607, 60222194>>, <<72504121, 30771767>>, <<93051723, 37657103>>,
       <<82511677, 55432017>>, <<48895748, 27125146>>, <<127649933, 26081608>>, <<83648416, 1873900>>, <<20945017, 34313198>>,
       <<9088742, 30748975>>, <<130699887, 64764135>>, <<132582802, 42317207>>, <<123475495, 23313890>>, <<81041149, 53434689>>,
       <<41907721, 61086119>>, <<12259356, 50705027>>, <<34615082, 32444044>>, <<29818016, 42945567>>, <<124586841, 32000536>>,
       <<119797890, 40508834>>, <<104410512, 4448475>>, <<19961805, 62008590>>, <<31990723, 4635804>>, <<40159767, 8901498>>,
       <<127228785, 3146367>>, <<21920387, 26703106>>, <<106091377, 39043878>>, <<91361519, 41652546>>, <<73435250, 47851003>>,
       <<128754296, 36137824>>, <<35210114, 1243344>>, <<70379359, 16467555>>, <<21141891, 50419438>>, <<12987255, 13790094>>,
       <<4261280, 63702585>>, <<42482378, 5499163>>, <<16343862, 18161565>>, <<8221732, 58969721>>, <<133217211, 43173681>>,
       <<38796509, 40918674>>, <<119484887, 42379277>>, <<94218594, 11564486>>, <<98156968, 10012446>>, <<87936685, 27847481>>,
       <<127857543, 8723749>>, <<117907715, 47591548>>, <<96560723, 5456468>>, <<75156282, 24448322>>, <<93115148, 174357>>,
       <<97134243, 59092167>>, <<74135685, 10454315>>, <<67451010, 27643548>>, <<20696559, 14432155>>, <<113324804, 20006391>>,
       <<64987118, 34064016>>, <<9100122, 25230868>>, <<22553235, 10966571>>, <<117411382, 59703936>>, <<34369201, 34550108>>,
       <<52522553, 36061141>>, <<91555375, 20324572>>, <<115641481, 26885161>>, <<44080064, 11426201>>, <<51916161, 4155442>>,
       <<56785676, 65797210>>, <<3764999, 18696550>>, <<117662232, 45379869>>, <<2550077, 20400934>>, <<128861691, 52980040>>,
       <<20469961, 5759267>>, <<21028433, 7782363>>, <<113895667, 40892254>>, <<110514554, 1031894>>, <<31140958, 15520663>>,
       <<74292909, 578010>>, <<63982078, 61137465>>, <<96441196, 35717936>>, <<24843055, 59422871>>, <<110795420, 30353912>>,
       <<133739803, 49103401>>, <<94819209, 58355195>>, <<123645336, 45873573>>, <<125778575, 46798856>>, <<50930032, 22564024>>,
       <<113750529, 11581269>>, <<111905250, 35589343>>, <<78816274, 12613404>>, <<14383102, 31870641>>, <<83113916, 60604663>>,
       <<122371302, 23943539>>, <<40956290, 62442124>>, <<86818536, 55823806>>, <<120415091, 27743551>>, <<80544181, 49531801>>,
       <<4996364, 55076442>>, <<84818615, 14227191>>, <<34315319, 38854339>>, <<115153958, 53839977>>, <<88845456, 39663612>>,
       <<41257460, 52635850>>, <<120211477, 32043292>>, <<83893376, 55952245>>, <<45519497, 54178236>>, <<111960596, 5590809>>,
       <<119671415, 15840033>>, <<119882674, 21208771>>, <<118549753, 6949703>>, <<88360614, 65469807>>, <<93781949, 2566314>>,
       <<81158962, 21632452>>, <<70745115, 31953647>>, <<132532486, 64101647>>, <<47386829, 62297509>>, <<10940165, 11887367>>,
       <<95765661, 2896162>>, <<66851911, 34838087>>, <<73235071, 55509661>>, <<80245122, 47714825>>, <<33537648, 2615131>>,
       <<26957448, 45362924>>, <<9575686, 22574858>>, <<104902879, 40380599>>, <<121931714, 9249285>>, <<93510888, 20706665>>,
       <<15674063, 34061424>>, <<131334299, 59643205>>, <<110955783, 55357256>>, <<68357191, 56296893>>, <<120990, 4797779>>,
       <<113260546, 15175189>>, <<83666240, 18402644>>, <<83517673, 64052860>>, <<2451585, 59767919>>, <<98385363, 65326429>>,
       <<4603234, 705086>>, <<64167024, 46820564>>, <<19443211, 14303737>>, <<48296187, 16724329>>, <<119475572, 49554884>>,
       <<100447455, 23150110>>, <<109510530, 65938627>>, <<40013835, 57573119>>, <<52138235, 42425558>>, <<81175703, 27019860>>,
       <<4569020, 11600777>>, <<55337545, 33131269>>, <<130847116, 4289628>>, <<101205669, 34267675>>, <<115794426, 34153615>>,
       <<40100499, 37570819>>, <<92708544, 18983459>>, <<105875667, 13930683>>, <<94564997, 47202865>>, <<58707111, 21598650>>,
       <<23470549, 14408868>>, <<2408588, 32118963>>, <<119052031, 29341017>>, <<125068509, 65212606>>, <<37036722, 22236648>>,
       <<101439529, 60971125>>, <<54641737, 63746976>>, <<84224345, 62256173>>, <<112998944, 27485226>>, <<43111774, 50350626>>,
       <<83230589, 14103957>>, <<34358154, 18766475>>, <<68601356, 5812698>>, <<4037624, 27047454>>, <<35375875, 40862709>>,
       <<38540192, 45345227>>, <<122742611, 43050901>>, <<17770632, 41132549>>, <<101774461, 20990120>>, <<11642398, 62762333>>,
       <<132385493, 52495556>>, <<22278896, 41621188>>, <<12365456, 47044753>>, <<28400958, 62706415>>, <<125233596, 17018839>>,
       <<89758991, 14503595>>, <<119528083, 43092285>>, <<67007097, 51293124>>, <<15303744, 43318447>>, <<45700766, 533833>>,
       <<61153035, 38257143>>, <<132916929, 13672415>>, <<22343105, 6275502>>, <<32770708, 34834673>>, <<113178725, 6397178>>,
       <<15301365, 53522045>>, <<130378368, 21213081>>, <<39809525, 58334279>>, <<76135165, 39052316>>, <<88669260, 10117578>>,
       <<121737887, 50080949>>, <<10161846, 44406239>>, <<113654194, 66676652>>, <<24061317, 60336394>>, <<96406216, 50126018>>,
       <<3653383, 50729583>>, <<102900244, 53769886>>, <<24304186, 45405930>>, <<27670083, 17644792>>, <<4678175, 39840132>>,
       <<43542559, 42370751>>, <<44042300, 49388669>>, <<131925737, 51676586>>, <<81443932, 56625305>>, <<48893241, 66188765>>,
       <<132890219, 10895526>>, <<23068633, 50695879>>, <<28853198, 3322786>>, <<128324080, 3586959>>, <<127699606, 10774854>>,
       <<91820736, 63063059>>, <<131349925, 62331006>>, <<7715785, 45178014>>, <<121274005, 17575755>>, <<94532222, 61815733>>,
       <<89667933, 44988504>>, <<113162165, 33142555>>, <<13990590, 56831896>>, <<26787000, 53536740>>, <<18495159, 26326267>>,
       <<64259947, 40357275>>, <<73303989, 33278394>>, <<72560597, 21723889>>, <<48612938, 28856773>>, <<99819118, 27233300>>,
       <<112531483, 2429958>>, <<101806366, 61645469>>, <<5084431, 12162226>>, <<20523914, 24036485>>, <<29427162, 19909626>>,
       <<31980459, 24406554>>, <<77016528, 58065920>>, <<26110551, 63018189>>, <<83841588, 45464857>>, <<46180829, 25749208>>,
       <<48812224, 35941773>>, <<95036978, 7507511>>, <<126749844, 15066420>>, <<25586598, 66839448>>, <<46739174, 12417917>>,
       <<131743018, 35869705>>, <<28536090, 1422530>>, <<3617853, 7903920>>, <<25653952, 19922773>>, <<110785070, 46304567>>,
       <<98151712, 21583290>>, <<125954424, 36309542>>, <<66750636, 63160803>>, <<5550615, 63798052>>, <<41101879, 53712063>>,
       <<96530220, 53832491>>, <<52724111, 10988070>>, <<18735143, 66789913>>, <<50425413, 41429070>>, <<62243121, 23530973>>,
       <<47771277, 392686>>, <<59916121, 46840589>>, <<18293468, 30027299>>, <<3994973, 49883146>>, <<105186922, 61925659>>,
       <<98279694, 48068610>>, <<56159267, 14191751>>, <<15421890, 22179913>>, <<39665612, 40104361>>, <<74932778, 3646777>>,
       <<120078734, 5261063>>, <<64645353, 10827454>>, <<130694274, 45326544>>, <<70731214, 4097261>>, <<24307033, 56039372>>,
       <<82553205, 16176475>>, <<80543019, 22325034>>, <<80426118, 1314058>>, <<97260054, 44358102>>, <<3069923, 25689576>> >>,
    \* random.seed(5)
    <<
       <<83604450, 17142624>>, <<99560964, 24060910>>, <<106729073, 46335103>>, <<126493535, 56472844>>, <<99307505, 43757106>>,
       <<123792365, 35570372>>, <<3893015, 56394807>>, <<62494814, 52073697>>, <<126615195, 16713640>>, <<87103890, 3479812>>,
       <<120916817, 10526114>>, <<15194247, 24950629>>, <<62957381, 58280388>>, <<33094445, 25552231>>, <<72982347, 6843386>>,
       <<77033082, 16732301>>, <<1760156, 49068908>>, <<29088981, 27390553>>, <<37511488, 12218890>>, <<122989793, 58214194>>,
       <<102773930, 26134695>>, <<21421714, 51131949>>, <<106991258, 4827257>>, <<18625047, 41468324>>, <<82873074, 29852417>>,
       <<17005283, 8874533>>, <<238217, 65252450>>, <<116957965, 356558>>, <<28112759, 51914994>>, <<28921392, 64433038>>,
       <<131858329, 11130437>>, <<117092588, 11172584>>, <<38829882, 21048786>>, <<129047391, 13347236>>, <<72373348, 58795346>>,
       <<90976866, 41992042>>, <<27485041, 12191577>>, <<126295660, 64998744>>, <<92696392, 13212328>>, <<129730065, 64766522>>,
       <<119955977, 25717693>>, <<40102767, 1447552>>, <<48478092, 27843918>>, <<22274244, 62799982>>, <<19555779, 17704119>>,
       <<8742904, 22270377>>, <<40447733, 54854806>>, <<80948053, 39335274>>, <<454074, 39995470>>, <<90990794, 47491342>>,
       <<45351749, 4430691>>, <<41601849, 23847225>>, <<109859636, 20539624>>, <<64524526, 46735942>>, <<42385033, 12399922>>,
       <<64588038, 31711511>>, <<94579090, 11819218>>, <<7650535, 17192071>>, <<130875647, 63016015>>, <<3068963, 63701107>>,
       <<100635784, 24001086>>, <<113397993, 27131716>>, <<2424983, 36847191>>, <<105728445, 28107020>>, <<49148448, 25257455>>,
       <<77647482, 56454264>>, <<1218480, 30388387>>, <<6271607, 47496852>>, <<24282602, 41856672>>, <<128202075, 64048329>>,
       <<26376692, 7987334>>, <<101433224, 16514604>>, <<124776224, 54995255>>, <<126438982, 31018076>>, <<46222144, 34393025>>,
       <<47619537, 59908827>>, <<70424286, 16837208>>, <<104099674, 31061321>>, <<14502610, 39578349>>, <<100448286, 52411160>>,
       <<107001953, 24648898>>, <<115386218, 19855084>>, <<4916607, 29056573>>, <<126943151, 65655386>>, <<12237954, 13991083>>,
       <<45733420, 34418797>>, <<81983884, 24335384>>, <<123223576, 9945240>>, <<45628595, 18500328>>, <<124043704, 47151139>>,
       <<73167994, 6178937>>, <<41936378, 46034387>>, <<42520174, 20546792>>, <<23820663, 53604790>>, <<10495320, 42064223>>,
       <<19980730, 48394553>>, <<92499447, 20757011>>, <<133778408, 32466850>>, <<21680117, 48327027>>, <<6516561, 5433014>>,
       <<132432512, 40308886>>, <<71609283, 61982204>>, <<54477368, 2135839>>, <<31854779, 49698039>>, <<79719991, 23074235>>,
       <<110903506, 16791232>>, <<61158334, 43685618>>, <<56607304, 9772998>>, <<7476897, 65702974>>, <<122952746, 42837223>>,
       <<4391767, 53798789>>, <<66245065, 22426795>>, <<112532073, 13895554>>, <<17525053, 65853960>>, <<98202336, 37852594>>,
       <<127479805, 8910512>>, <<84610760, 60162829>>, <<105764851, 27771152>>, <<14311718, 11329376>>, <<58325010, 25031447>>,
       <<20031371, 3944029>>, <<113378264, 28229063>>, <<39569121, 9475933>>, <<60821422, 61874596>>, <<134123768, 41634472>>,
       <<114387417, 11360853>>, <<130997518, 35043869>>, <<60873106, 64433323>>, <<65519591, 46227205>>, <<97912506, 21320637>>,
       <<64295989, 18390213>>, <<39060394, 31546590>>, <<54195697, 60522831>>, <<19663751, 7553797>>, <<50600183, 55167177>>,
       <<132659151, 35685262>>, <<128824307, 12039077>>, <<84149813, 62890702>>, <<67017924, 58237000>>, <<45429850, 12087668>>,
       <<11963821, 33008301>>, <<36548847, 34573068>>, <<104960809, 36782403>>, <<116418686, 33743980>>, <<48496386, 4235159>>,
       <<105498164, 53361732>>, <<104005061, 23870542>>, <<93227197, 39425404>>, <<89123047, 2303077>>, <<101956985, 20515118>>,
       <<48778985, 37534949>>, <<94552305, 44849360>>, <<37695324, 56051503>>, <<65187567, 17774349>>, <<103313756, 65830884>>,
       <<92728740, 48048959>>, <<39440153, 64215493>>, <<126909244, 22821938>>, <<87200204, 11988957>>, <<77934976, 57164806>>,
       <<1554329, 31829992>>, <<73415874, 51923270>>, <<33647349, 21871109>>, <<90146387, 18366696>>, <<62134619, 19382819>>,
       <<109612889, 33577861>>, <<86897515, 45207090>>, <<107055542, 23929050>>, <<46692268, 18379483>>, <<86444682, 23191604>>,
       <<99029510, 62915578>>, <<111157601, 27411892>>, <<46982264, 61896735>>, <<113129383, 11574468>>, <<116757511, 58181470>>,
       <<92387022, 30184497>>, <<131012902, 24446060>>, <<128381468, 22437127>>, <<69543497, 9519943>>, <<71046822, 65780432>>,
       <<22303311, 13331390>>, <<112289273, 24295349>>, <<125813240, 57301225>>, <<64053925, 18982292>>, <<92801571, 5290643>>,
       <<96594683, 45020538>>, <<98026377, 27959792>>, <<23062196, 41391435>>, <<104739706, 62828983>>, <<77959736, 34658720>>,
       <<89329444, 62842827>>, <<56477750, 20311577>>, <<83716575, 37125148>>, <<103979110, 58191984>>, <<85478797, 18166776>>,
       <<96692393, 66841557>>, <<3707364, 13126417>>, <<21477932, 39355873>>, <<59199200, 41880750>>, <<87257235, 12129440>>,
       <<29398804, 50935436>>, <<92067621, 12115374>>, <<84673288, 48215191>>, <<5618582, 66200773>>, <<63295134, 65750577>>,
       <<30365767, 11122991>>, <<7266951, 59848346>>, <<17921675, 7437597>>, <<42594108, 64960072>>, <<24366854, 32390889>>,
       <<25952353, 36797182>>, <<4785875, 27883046>>, <<62455557, 23561911>>, <<51042847, 44461232>>, <<82113594, 4830293>>,
       <<79210525, 13714787>>, <<31923204, 48185186>>, <<121223079, 25099448>>, <<88666, 23523024>>, <<54408611, 63894792>>,
       <<37383404, 57435438>>, <<55034947, 58143203>>, <<15445029, 46228299>>, <<111584600, 36724858>>, <<50181277, 64717820>>,
       <<4840174, 36905374>>, <<82351178, 20225433>>, <<12726748, 19815994>>, <<73178305, 34403204>>, <<45549914, 63827435>>,
       <<77966573, 19675769>>, <<128620916, 23596696>>, <<109860163, 8667764>>, <<56250908, 27463818>>, <<109117650, 37844039>>,
       <<86207582, 36130450>>, <<49585762, 31371533>>, <<19074015, 10521022>>, <<79985396, 25685673>>, <<75679892, 32013028>>,
       <<128474899, 13365225>>, <<129922347, 8924340>>, <<81686237, 6095578>>, <<47126002, 55112101>>, <<119919110, 44403152>>,
       <<127168, 25625776>>, <<14484554, 21880319>>, <<75942002, 61503671>>, <<82566456, 36200105>>, <<18884499, 21839895>>,
       <<84484193, 58820898>>, <<119625815, 37869159>>, <<50445505, 28803184>>, <<57939617, 65543914>>, <<30378285, 33112198>>,
       <<39123740, 32183718>>, <<130520650, 47533110>>, <<50973280, 25762525>>, <<129001905, 57375699>>, <<122641082, 10672146>>,
       <<79968261, 39859343>>, <<34873074, 49729427>>, <<131664982, 20186527>>, <<66612997, 16848907>>, <<55766354, 1320119>>,
       <<42835929, 63429691>>, <<132107357, 20635199>>, <<66002200, 62380678>>, <<38439736, 9616124>>, <<64013226, 1595508>>,
       <<16359263, 44295799>>, <<83441365, 64480272>>, <<59521218, 16475246>>, <<39339632, 2682777>>, <<104918843, 9156348>>,
       <<110971929, 26332770>>, <<1772116, 32232158>>, <<71479617, 37602129>>, <<36747152, 16339111>>, <<125527550, 31828258>>,
       <<104945813, 2467119>>, <<32971951, 32891316>>, <<35928543, 56634108>>, <<20772294, 48416111>>, <<132717872, 19174923>>,
       <<39351061, 33035275>>, <<81609423, 66604426>>, <<63703951, 34777092>>, <<86553875, 57947269>>, <<81047874, 59100078>>,
       <<99787288, 60062619>>, <<15861716, 1085335>>, <<102058983, 8457887>>, <<40357896, 18948016>>, <<71604878, 47514907>>,
       <<45113483, 41176087>>, <<39838796, 49075100>>, <<71117613, 1786158>>, <<62322222, 23472314>>, <<48457885, 45752237>>,
       <<99994513, 54535210>>, <<79296464, 8890556>>, <<4889406, 190330>>, <<33879634, 37126517>>, <<61151438, 46018754>>,
       <<123020375, 7220956>>, <<119177366, 46132018>>, <<73228157, 12829826>>, <<1954279, 28834701>>, <<104472752, 54192492>>,
       <<57409154, 39922531>>, <<77261332, 46239170>>, <<95050473, 63972721>>, <<84857191, 43544555>>, <<64676712, 57625903>>,
       <<122368357, 56452003>>, <<51737330, 31925010>>, <<52595322, 45790270>>, <<114340268, 48292172>>, <<26369509, 60323968>>,
       <<39788657, 31211303>>, <<111403873, 50881721>>, <<8865655, 20377615>>, <<112243418, 216523>>, <<93230517, 52277652>>,
       <<58092130, 39064915>>, <<38434733, 43513023>>, <<104787693, 31705560>>, <<122228812, 20867545>>, <<19150746, 11103121>>,
       <<64211453, 46656281>>, <<73698328, 59638978>>, <<66797736, 65291679>>, <<44390769, 36100862>>, <<20606145, 28558898>>,
       <<78631756, 36333156>>, <<108961044, 3258409>>, <<9183084, 49166253>>, <<30872662, 17931812>>, <<110004009, 5717419>>,
       <<106266954, 4222327>>, <<89067072, 63227700>>, <<3429711, 22350714>>, <<96985540, 28812263>>, <<131357010, 4610688>>,
       <<133994185, 27196426>>, <<94119933, 32661287>>, <<6562297, 8279557>>, <<113019734, 8211205>>, <<29424835, 41242121>>,
       <<86669409, 55321152>>, <<127808162, 7459546>>, <<95622529, 60052133>>, <<18069180, 66709773>>, <<39257733, 47363685>>,
       <<123211582, 29391696>>, <<20096421, 12286683>>, <<81954947, 12434337>>, <<55557582, 53825027>>, <<21633199, 4511590>>,
       <<83537791, 14303503>>, <<5846911, 37279716>>, <<14524333, 44306057>>, <<50895235, 50031407>>, <<9664205, 18781786>>,
       <<7725739, 38326095>>, <<77209514, 7942607>>, <<99634869, 26744929>>, <<117904518, 41857126>>, <<18029853, 669001>>,
       <<57937834, 6136285>>, <<42220819, 46001545>>, <<80559846, 32846015>>, <<65710283, 23716466>>, <<125968439, 44033798>>,
       <<50224032, 61390842>>, <<7482802, 9276617>>, <<93589522, 19778609>>, <<20281534, 38161334>>, <<84737816, 45496263>>,
       <<67893246, 19477445>>, <<122194844, 63214599>>, <<74476191, 36902066>>, <<83332811, 14803586>>, <<35332377, 4240349>>,
       <<74044605, 15813015>>, <<34116838, 55875372>>, <<100740956, 19021485>>, <<69389988, 65438053>>, <<17955761, 54225896>>,
       <<31463361, 57948680>>, <<49823516, 30423013>>, <<98885299, 26098880>>, <<24067975, 8803529>>, <<95737010, 1254350>>,
       <<87914456, 22924673>>, <<11441169, 38468514>>, <<89651163, 2412309>>, <<12237740, 57940779>>, <<16749248, 33988427>>,
       <<79721875, 30433957>>, <<32022349, 26162532>>, <<117699102, 31046945>>, <<64487313, 64646005>>, <<43390744, 7219158>>,
       <<106899532, 35614845>>, <<3954185, 36379771>>, <<97308746, 25811374>>, <<7202014, 56924638>>, <<20240175, 63392341>>,
       <<127780842, 28812168>>, <<91417379, 53311751>>, <<29942367, 50305310>>, <<15579695, 5622187>>, <<130553243, 61163570>>,
       <<89263211, 32980363>>, <<110138555, 14193584>>, <<18758970, 47076167>>, <<83858897, 25224164>>, <<47553107, 56090742>>,
       <<31543695, 19448290>>, <<44730081, 62447482>>, <<82377119, 47333568>>, <<46797928, 53421440>>, <<51774213, 25376471>>,
       <<18310707, 48501087>>, <<111548423, 24045933>>, <<86958283, 19858359>>, <<107978589, 42368563>>, <<58169224, 64508216>>,
       <<114296614, 24308068>>, <<69456495, 2439446>>, <<79541023, 66643878>>, <<76941447, 14420410>>, <<99342597, 12115549>>,
       <<53084440, 4246746>>, <<13018952, 2489887>>, <<4451410, 12505182>>, <<27166677, 13126384>>, <<5295307, 32885299>>,
       <<119354114, 62888906>>, <<64557662, 44375559>>, <<102052096, 23388620>>, <<59006, 28654658>>, <<63107372, 20169339>>,
       <<119423831, 62720334>>, <<83143235, 61855165>>, <<57531736, 21693509>>, <<62488216, 30997448>>, <<13388010, 12858187>>,
       <<20759893, 43846365>>, <<21346125, 4777510>>, <<50282536, 58322112>>, <<51762070, 58311997>>, <<118157614, 31518354>>,
       <<20416384, 37048325>>, <<34100309, 7397868>>, <<37236246, 54923632>>, <<21681192, 50356335>>, <<38527596, 45096218>>,
       <<31563687, 2224864>>, <<64697766, 60153582>>, <<4307786, 23105478>>, <<124086951, 50465749>>, <<49522050, 21210755>>,
       <<125888451, 3952286>>, <<92303444, 1459113>>, <<90437749, 30645818>>, <<63314762, 56961864>>, <<126890027, 10466930>>,
       <<15826053, 52703950>>, <<89733338, 21762746>>, <<39070870, 30459259>>, <<90525215, 16102704>>, <<97884720, 66679243>>,
       <<21908173, 2250303>>, <<26980774, 47969883>>, <<3346091, 38568811>>, <<30933491, 44054905>>, <<10496272, 41445192>>,
       <<53830806, 61181341>>, <<130673593, 47426667>>, <<48889224, 45669255>>, <<41854364, 12379989>>, <<62818856, 24257172>>,
       <<38002838, 4488151>>, <<98294044, 66680712>>, <<96358718, 31409498>>, <<21924896, 52065873>>, <<32283814, 11787368>>,
       <<90219329, 14010244>>, <<126229329, 2947494>>, <<86687690, 40847877>>, <<57800590, 48749372>>, <<130920222, 18167125>>,
       <<841905, 30998544>>, <<8169411, 30402590>>, <<104590951, 45723097>>, <<55051925, 11392228>>, <<6032862, 2232688>>,
       <<73607186, 56072027>>, <<132822610, 56188044>>, <<69650942, 37929973>>, <<46977989, 63049091>>, <<12591590, 48085918>>,
       <<9558767, 15904474>>, <<120633814, 53901411>>, <<65922407, 6170435>>, <<125592389, 31626059>>, <<7215744, 45821316>>,
       <<32677133, 43234597>>, <<6772323, 33381159>>, <<53327241, 52448824>>, <<8071686, 3214586>>, <<34283240, 55930378>>,
       <<54689960, 29922294>>, <<41063764, 42982794>>, <<6890899, 58725917>>, <<5047197, 63762527>>, <<130409258, 13052486>>,
       <<24076840, 46689644>>, <<68267052, 42986837>>, <<54003512, 12620416>>, <<71311098, 15684900>>, <<11322573, 62205504>>,
       <<42129324, 53069628>>, <<14492886, 5826336>>, <<72737563, 66113332>>, <<123655131, 10867357>>, <<80300656, 5058073>>,
       <<114993298, 48998988>>, <<28777590, 41939568>>, <<2336498, 29609206>>, <<72428326, 23999063>>, <<65302297, 28399171>>,
       <<76694967, 51547656>>, <<50550242, 35052049>>, <<83899404, 8907804>>, <<97393568, 829008>>, <<122540608, 50746291>>,
       <<41286845, 46211518>>, <<60269390, 59828150>>, <<110919640, 67087538>>, <<30061219, 37209517>>, <<15527222, 9309108>>,
       <<41838020, 32428542>>, <<11762126, 52338577>>, <<103670439, 17681901>>, <<109983063, 27017865>>, <<41993505, 8903194>>,
       <<17423276, 36021317>>, <<11003835, 31649196>>, <<32863150, 46786553>>, <<11317871, 53607172>>, <<57532443, 64945921>>,
       <<77441320, 44714557>>, <<32935210, 18510812>>, <<8246650, 33061871>>, <<94033261, 16695111>>, <<6446626, 47217950>>,
       <<26823941, 53430811>>, <<38388727, 59234288>>, <<50165576, 59426904>>, <<13224603, 4823465>>, <<56449020, 51637381>>,
       <<42134901, 25492268>>, <<100974305, 51624299>>, <<74636353, 5053>>, <<120271161, 19187025>>, <<87791562, 63103740>>,
       <<101967719, 8827717>>, <<77138811, 1900454>>, <<59348744, 9628210>>, <<109629132, 46142435>>, <<87974159, 52434857>>,
       <<128146333, 1255886>>, <<97713215, 3167338>>, <<94110347, 28695435>>, <<35929396, 7149590>>, <<108994996, 54039739>>,
       <<51325571, 37710538>>, <<17481125, 21560608>>, <<8848824, 20565152>>, <<22731484, 9216069>>, <<35244503, 33401350>>,
       <<90717304, 21690509>>, <<38322006, 2284099>>, <<8525973, 36399162>>, <<102513856, 49590740>>, <<74789476, 1871859>>,
       <<3687267, 8164615>>, <<6795519, 65064330>>, <<17464169, 55463725>>, <<47935644, 29256449>>, <<115400154, 17325363>>,
       <<127402117, 63851337>>, <<82141482, 1115589>>, <<31017333, 35395743>>, <<57566417, 8410296>>, <<48642013, 13501299>> >>,
    \* random.seed(6)
    <<
       <<106480303, 38508415>>, <<110320804, 5406933>>, <<65100245, 51151505>>, <<35114241, 2471132>>, <<60628, 9769575>>,
       <<88962001, 39358303>>, <<63116457, 64794800>>, <<101969319, 49314027>>, <<50084737, 21433609>>, <<103366419, 1468999>>,
       <<36600917, 32805582>>, <<107631274, 13294730>>, <<97955430, 58552972>>, <<55567003, 61107499>>, <<72250103, 36188484>>,
       <<91543435, 6322340>>, <<25901991, 37810347>>, <<74304969, 46944241>>, <<108061920, 48914841>>, <<35637632, 44486470>>,
       <<107825866, 40939563>>, <<92031738, 5912898>>, <<113317655, 28501089>>, <<45041055, 66453633>>, <<12500313, 24302843>>,
       <<107412128, 27510934>>, <<108015946, 16809875>>, <<59755398, 46950767>>, <<12586988, 50705367>>, <<26462641, 47026348>>,
       <<85217365, 53446228>>, <<39081996, 6546531>>, <<127691123, 3065740>>, <<78996500, 60583452>>, <<26960894, 55559709>>,
       <<87966834, 61248638>>, <<48369326, 32662022>>, <<125189869, 55883101>>, <<122072527, 13000531>>, <<69075309, 38646840>>,
       <<86512963, 65097782>>, <<93671941, 59888512>>, <<108113040, 33802104>>, <<131046834, 61491427>>, <<3814733, 42512019>>,
       <<48503122, 16434672>>, <<80765147, 28835914>>, <<40845730, 23983340>>, <<79075279, 8025191>>, <<12037647, 33564978>>,
       <<118122182, 45541176>>, <<70499631, 13363082>>, <<15679904, 40816174>>, <<88951614, 17977433>>, <<41913600, 48251497>>,
       <<26336757, 25488396>>, <<64927058, 14947743>>, <<18536212, 40087023>>, <<28170324, 55969048>>, <<116170704, 58786336>>,
       <<93714004, 35040258>>, <<1680768, 12666574>>, <<104429111, 11350981>>, <<2289586, 43485685>>, <<44682700, 37429685>>,
       <<121391593, 45053939>>, <<83250593, 41514774>>, <<41087338, 25141138>>, <<50654414, 35391458>>, <<52232920, 19404474>>,
       <<17023468, 45548768>>, <<134201433, 32799981>>, <<7223885, 12438556>>, <<56759154, 39857965>>, <<100168439, 66996627>>,
       <<53387020, 6441213>>, <<131664038, 29612011>>, <<32925090, 54067257>>, <<131433520, 5976521>>, <<119756706, 40478821>>,
       <<89955017, 58416591>>, <<119388353, 29938096>>, <<60021384, 52607192>>, <<111569763, 25502613>>, <<106850577, 5131868>>,
       <<69348510, 28616614>>, <<63207128, 20364973>>, <<94713823, 54796563>>, <<54903608, 63130996>>, <<11533447, 12894658>>,
       <<100195666, 45646087>>, <<35677718, 30290134>>, <<65453153, 48494699>>, <<105230627, 64765011>>, <<23102643, 1244260>>,
       <<2935792, 36100695>>, <<16575260, 16853555>>, <<79110017, 53806415>>, <<48459193, 12586876>>, <<34401642, 33738078>>,
       <<60603766, 22108353>>, <<124499976, 34686730>>, <<34193764, 65871459>>, <<55105987, 62205213>>, <<118016824, 28302686>>,
       <<82165027, 32574950>>, <<35961962, 40432101>>, <<63714353, 44042712>>, <<64228415, 33019045>>, <<19083749, 48403938>>,
       <<50664254, 33329639>>, <<41026806, 42578468>>, <<108010506, 31357369>>, <<43404704, 24593856>>, <<88482118, 10940830>>,
       <<130294017, 61276987>>, <<123893482, 41570100>>, <<50471609, 46603906>>, <<80937507, 17837806>>, <<42964840, 43358970>>,
       <<53456447, 65432123>>, <<65498082, 48942872>>, <<106493581, 10615762>>, <<125709983, 55545344>>, <<39029141, 37571533>>,
       <<831117, 41861434>>, <<60311713, 64736968>>, <<7664509, 12252616>>, <<4041652, 40933827>>, <<103827195, 38236616>>,
       <<15051398, 45774693>>, <<96436402, 24890909>>, <<48588337, 65941451>>, <<125955346, 33382680>>, <<114553707, 39577409>>,
       <<8358388, 61691409>>, <<25854581, 10360824>>, <<127156720, 18069278>>, <<82333508, 994797>>, <<56654860, 54104150>>,
       <<104997368, 53697601>>, <<109187977, 35222665>>, <<65994055, 5088146>>, <<62934575, 15573724>>, <<13442579, 24891580>>,
       <<48583059, 64556210>>, <<19456017, 45695178>>, <<83965746, 16331617>>, <<81413811, 21362472>>, <<19364435, 2528684>>,
       <<84289727, 44839326>>, <<13062367, 47911393>>, <<14150772, 3037695>>, <<86646960, 32069694>>, <<62104327, 48593184>>,
       <<120740309, 4630383>>, <<84449443, 2070053>>, <<94136350, 37005645>>, <<17046539, 41380487>>, <<111758180, 62020896>>,
       <<11213029, 10808458>>, <<82962893, 42357650>>, <<122325815, 17796276>>, <<121833378, 56264692>>, <<119895976, 43907927>>,
       <<60664245, 33533792>>, <<93120312, 1361169>>, <<106210847, 42778494>>, <<18397493, 54911764>>, <<126621249, 12669753>>,
       <<121973625, 62687690>>, <<59174803, 32156132>>, <<104488235, 29492942>>, <<60005882, 37486338>>, <<37098728, 32039907>>,
       <<95627288, 38877455>>, <<8545662, 55796125>>, <<107400859, 19579715>>, <<131275262, 24390256>>, <<38395755, 24168709>>,
       <<126120556, 2272855>>, <<11231575, 33715855>>, <<115169385, 18507543>>, <<37555183, 18395535>>, <<129683928, 31749206>>,
       <<57807134, 29811960>>, <<123770623, 24927914>>, <<4283306, 47901214>>, <<11494866, 16748749>>, <<109571543, 40578770>>,
       <<85707769, 16002211>>, <<71873743, 50027571>>, <<4390630, 49596452>>, <<23259013, 22574145>>, <<49726146, 2145036>>,
       <<6988162, 63880587>>, <<133283589, 49650291>>, <<102703101, 50414320>>, <<127479588, 14037771>>, <<94044497, 29060385>>,
       <<46100851, 59400399>>, <<10414599, 10578635>>, <<98182935, 45353504>>, <<15305520, 26820249>>, <<73433946, 9106179>>,
       <<62283875, 49863277>>, <<66374792, 42909629>>, <<10090693, 8593382>>, <<9928228, 23515063>>, <<69829030, 65665808>>,
       <<4090381, 12460722>>, <<70521086, 47518852>>, <<20172979, 12328349>>, <<37809946, 49593168>>, <<20267105, 34045722>>,
       <<76294297, 57047181>>, <<52117981, 53464088>>, <<29941591, 63423161>>, <<29742083, 46678632>>, <<75706472, 47997346>>,
       <<122216030, 8445776>>, <<56254822, 46362575>>, <<21902171, 50820941>>, <<42479746, 66667639>>, <<32257025, 37649011>>,
       <<76821296, 319736>>, <<105551259, 54028336>>, <<76358527, 25950022>>, <<25252558, 51018720>>, <<43656079, 57374094>>,
       <<51147830, 35319262>>, <<59182430, 649239>>, <<53353051, 56698276>>, <<133884939, 35620750>>, <<73961865, 57044797>>,
       <<88862218, 9144380>>, <<96149878, 15682880>>, <<86589681, 36502238>>, <<108079877, 49853758>>, <<49959066, 18246871>>,
       <<89464080, 12425173>>, <<130537849, 10026733>>, <<22028964, 46321627>>, <<83948421, 9014864>>, <<51633392, 4984512>>,
       <<8196306, 822295>>, <<5351454, 31689175>>, <<101866639, 3974663>>, <<15380315, 43678989>>, <<95434826, 36257317>>,
       <<13441405, 45213304>>, <<49340502, 39971358>>, <<4319247, 4018284>>, <<72847464, 15085294>>, <<105549867, 27302856>>,
       <<30276604, 51247286>>, <<75874164, 46149613>>, <<123786170, 63826179>>, <<39392655, 6221863>>, <<63223110, 5187467>>,
       <<97193543, 38480576>>, <<115994041, 3946565>>, <<22630725, 59978186>>, <<88766033, 29389351>>, <<16113964, 64294264>>,
       <<15062400, 47107276>>, <<131969411, 11932092>>, <<6712604, 45899743>>, <<123453577, 2039295>>, <<100678496, 56422762>>,
       <<90722710, 66651129>>, <<97903791, 28543388>>, <<87370999, 47534710>>, <<38524039, 17159019>>, <<59508440, 15565531>>,
       <<27130996, 54748435>>, <<115329255, 43907967>>, <<104530240, 35943370>>, <<105702250, 43266394>>, <<28716996, 18643981>>,
       <<79485239, 880107>>, <<34217904, 35369024>>, <<106103829, 49112902>>, <<99961990, 65352343>>, <<133561828, 65012401>>,
       <<95052246, 58476820>>, <<91789963, 22211497>>, <<104289327, 34723130>>, <<12573367, 39250504>>, <<79908467, 43312003>>,
       <<4394447, 24296766>>, <<49276759, 46392133>>, <<15719495, 15183502>>, <<127301756, 51193831>>, <<3759895, 24183719>>,
       <<123657037, 46454731>>, <<127222737, 22857372>>, <<58468978, 46015123>>, <<111731522, 65175778>>, <<6945809, 23085992>>,
       <<18709863, 2039933>>, <<1319124, 22561612>>, <<9138582, 32543706>>, <<346326, 31113683>>, <<111176741, 17696417>>,
       <<11746894, 45440079>>, <<79287080, 41353086>>, <<36672207, 15449782>>, <<17767731, 8451266>>, <<56266290, 36625982>>,
       <<24406534, 16305104>>, <<131155298, 44488246>>, <<51526749, 65899761>>, <<79701063, 28795945>>, <<75637583, 34733479>>,
       <<84137008, 55737219>>, <<64482944, 62313034>>, <<36259225, 16989509>>, <<18357384, 20069360>>, <<119191824, 2205304>>,
       <<25841132, 50872869>>, <<60185892, 7028090>>, <<108497654, 11817010>>, <<77317285, 7277097>>, <<127248581, 62304836>>,
       <<108653585, 173911>>, <<68929962, 10768715>>, <<16094289, 10199782>>, <<79550383, 26382490>>, <<63578327, 32628798>>,
       <<115663029, 58355199>>, <<71242236, 51487900>>, <<93182025, 36338422>>, <<108933289, 53377749>>, <<63142140, 14454502>>,
       <<112997255, 43232814>>, <<120708627, 26062044>>, <<20716521, 51706377>>, <<123366170, 30741399>>, <<116735058, 61100168>>,
       <<114755699, 715640>>, <<45333882, 28024185>>, <<33799058, 21432001>>, <<17828245, 19178513>>, <<49793160, 39483939>>,
       <<114760004, 45539136>>, <<48705450, 14985704>>, <<718880, 52346891>>, <<40926122, 11854620>>, <<11077051, 27356853>>,
       <<83550734, 41629961>>, <<103110915, 15536471>>, <<124369173, 43089709>>, <<11974728, 13034577>>, <<51056803, 27637967>>,
       <<16892667, 50539358>>, <<122194078, 61277696>>, <<112335488, 9901156>>, <<69767051, 62329508>>, <<128049276, 3378661>>,
       <<69830662, 35222872>>, <<104209667, 65006082>>, <<65505659, 61814679>>, <<48890449, 59255252>>, <<133467818, 22058188>>,
       <<112971315, 47807998>>, <<79414168, 26148941>>, <<116397148, 18321042>>, <<87166727, 44545260>>, <<107075911, 64891057>>,
       <<8955449, 17553628>>, <<17649645, 2765676>>, <<14684560, 39524527>>, <<80948569, 41030670>>, <<96590868, 66386119>>,
       <<20819724, 55026643>>, <<67798370, 33990984>>, <<15246634, 52496679>>, <<92284156, 51369441>>, <<104559326, 64938669>>,
       <<11632544, 5804918>>, <<131534658, 55887239>>, <<89240930, 50665160>>, <<16760920, 14503557>>, <<47115757, 22706260>>,
       <<21239843, 65335350>>, <<97705657, 54935195>>, <<123043046, 16389666>>, <<23505967, 64767274>>, <<24700417, 15138128>>,
       <<84407114, 8422219>>, <<115360458, 32150182>>, <<99181019, 62252783>>, <<61440470, 41764639>>, <<14832668, 48751364>>,
       <<82426223, 9172993>>, <<61144119, 65174960>>, <<107881006, 13174416>>, <<76759612, 24904249>>, <<98513700, 9704598>>,
       <<130338569, 22297579>>, <<84018662, 17691841>>, <<122362767, 4582210>>, <<36770306, 50514056>>, <<205815, 4101205>>,
       <<118434191, 43910720>>, <<4009866, 32189547>>, <<133363532, 42334785>>, <<61169034, 21347109>>, <<8225280, 757487>>,
       <<36863995, 59893609>>, <<96812336, 6803949>>, <<51549162, 62654670>>, <<83729881, 22545019>>, <<13680854, 49493666>>,
       <<112158179, 57643886>>, <<50083722, 9526813>>, <<111773299, 50719246>>, <<19771184, 24855880>>, <<89563362, 51132197>>,
       <<62950025, 49922131>>, <<54280358, 52849834>>, <<2594929, 63470540>>, <<71365141, 59653422>>, <<112480784, 10123854>>,
       <<13941904, 66155091>>, <<59829510, 25065883>>, <<1671764, 59911388>>, <<133427860, 63250403>>, <<130125322, 8557369>>,
       <<91055190, 36998804>>, <<64439040, 17803676>>, <<9445937, 32092960>>, <<16249435, 26790421>>, <<94623995, 13325012>>,
       <<106636225, 36460553>>, <<132752270, 65439962>>, <<115658875, 11404682>>, <<58775979, 22205144>>, <<34264931, 53789909>>,
       <<72724549, 52030491>>, <<46426658, 19749653>>, <<73121826, 46219814>>, <<118657358, 18340981>>, <<60794071, 37295310>>,
       <<131695951, 59300257>>, <<96416224, 51640455>>, <<6139162, 33588021>>, <<100242957, 16754959>>, <<88790449, 66120344>>,
       <<83488676, 65171806>>, <<441294, 35363646>>, <<117963087, 54860559>>, <<66478101, 37374610>>, <<72045953, 17097983>>,
       <<22853112, 56655581>>, <<4756059, 21527154>>, <<1869744, 57649890>>, <<28165956, 38291893>>, <<40822706, 12794156>>,
       <<20671448, 18660549>>, <<7813194, 18297124>>, <<97630761, 20304959>>, <<94286247, 65932695>>, <<118386711, 25114358>>,
       <<29211060, 47476056>>, <<97764989, 11513966>>, <<79789451, 183595>>, <<12093610, 54703732>>, <<117440657, 55549618>>,
       <<47954354, 38725220>>, <<24821597, 23475099>>, <<24599021, 32044601>>, <<124063545, 42900137>>, <<29631032, 31922162>>,
       <<51582153, 59719389>>, <<73415677, 41760941>>, <<48204197, 8246215>>, <<88043375, 49221633>>, <<11765729, 65177816>>,
       <<57704610, 3653777>>, <<78456419, 59779183>>, <<83076241, 13676501>>, <<81733103, 29466866>>, <<36138054, 14688616>>,
       <<85652333, 66032903>>, <<130486938, 3784816>>, <<64753153, 44459485>>, <<86435414, 33804340>>, <<112335853, 35378533>>,
       <<33868508, 34969668>>, <<35652866, 42978219>>, <<130221869, 24232778>>, <<40360137, 52761772>>, <<57188783, 50263661>>,
       <<49786069, 6340318>>, <<133299620, 51340036>>, <<73158739, 27796351>>, <<120277788, 43128055>>, <<21803531, 62914716>>,
       <<37262534, 4095448>>, <<87206487, 33829347>>, <<42716584, 54855483>>, <<89021222, 65879570>>, <<68145153, 3854005>>,
       <<10486981, 44624134>>, <<15005053, 4077926>>, <<58868670, 28894117>>, <<71620520, 6079217>>, <<23698816, 46044785>>,
       <<35322376, 23598443>>, <<160782, 4247790>>, <<35692422, 47977351>>, <<41503824, 23206216>>, <<52123611, 27078258>>,
       <<79619190, 47232473>>, <<114447829, 55890035>>, <<96277607, 5226903>>, <<99423446, 7706930>>, <<37974521, 53804088>>,
       <<66513949, 29987264>>, <<97552536, 17251189>>, <<119963472, 20814281>>, <<32270076, 51468785>>, <<2020398, 61830267>>,
       <<6829105, 52018269>>, <<69171358, 36370945>>, <<117069785, 25546337>>, <<20584132, 14740018>>, <<105198128, 19772956>>,
       <<86046638, 43725326>>, <<115941429, 49983985>>, <<120937054, 822323>>, <<14405006, 17685544>>, <<106529634, 64488206>>,
       <<18161033, 37488552>>, <<15933439, 2076965>>, <<53504589, 17263934>>, <<65603548, 14270323>>, <<9361309, 48876647>>,
       <<36998882, 51272853>>, <<23553655, 59741976>>, <<18109241, 10319173>>, <<13264315, 57344109>>, <<3189506, 53229163>>,
       <<29198994, 39925204>>, <<43926904, 59887365>>, <<56352967, 60312174>>, <<93206867, 31903822>>, <<82138913, 38458858>>,
       <<65471835, 30288907>>, <<43337490, 64702438>>, <<82496439, 30471139>>, <<25889206, 53729371>>, <<23802094, 35697088>>,
       <<15163644, 14833453>>, <<89825858, 55170326>>, <<18693759, 26248936>>, <<29910047, 39428011>>, <<47186875, 31251402>>,
       <<75693544, 51664971>>, <<86911561, 18433132>>, <<79500989, 56242334>>, <<80008279, 57345843>>, <<25854891, 38218714>>,
       <<122493622, 15154613>>, <<98931722, 1817574>>, <<54610365, 16377472>>, <<53224555, 65956273>>, <<77446005, 50242105>>,
       <<16037163, 61622842>>, <<86459461, 2301732>>, <<121186142, 21140342>>, <<48848143, 53935860>>, <<66972978, 43293309>>,
       <<33970847, 66957601>>, <<122081434, 29262725>>, <<50557447, 20356154>>, <<48403606, 35199070>>, <<95657096, 39433696>>,
       <<49992225, 39166755>>, <<121464431, 3835435>>, <<55196376, 42897258>>, <<79057914, 12064386>>, <<40924760, 19451496>>,
       <<79108653, 44596364>>, <<63379195, 16145455>>, <<13965422, 30930129>>, <<119313422, 38660135>>, <<21530531, 24591392>>,
       <<77278357, 28765871>>, <<90886826, 64596770>>, <<62903419, 53730291>>, <<43975488, 4802026>>, <<60888264, 29048129>>,
       <<134156448, 32572234>>, <<1596685, 57603278>>, <<118789701, 7280681>>, <<81503328, 4345004>>, <<64568182, 29126969>> >>,
    \* random.seed(7)
    <<
       <<43464097, 63610167>>, <<20246633, 26496156>>, <<87366946, 3240447>>, <<9722233, 55114784>>, <<71924865, 6316960>>,
       <<49081935, 39110241>>, <<7784483, 61049206>>, <<68106871, 14408151>>, <<5032582, 5767821>>, <<58202938, 28063058>>,
       <<9375836, 16150620>>, <<12175294, 36980155>>, <<56978001, 3966838>>, <<110978213, 37946955>>, <<16616417, 63582273>>,
       <<29962626, 42320588>>, <<84212661, 39124259>>, <<127199341, 4151491>>, <<77457446, 39295019>>, <<53241552, 3327882>>,
       <<131030742, 14836550>>, <<6252221, 37357148>>, <<115221686, 8937210>>, <<38870700, 28127945>>, <<19361589, 36284815>>,
       <<15809806, 38313369>>, <<41403729, 37598229>>, <<109538625, 45768426>>, <<24256684, 6915951>>, <<78061052, 38332877>>,
       <<85753514, 12607811>>, <<49982352, 6538455>>, <<73517017, 47788944>>, <<8427393, 37874115>>, <<7999533, 41541030>>,
       <<27643310, 33313812>>, <<91321738, 35683141>>, <<57390467, 52158940>>, <<42164119, 31246012>>, <<78592782, 61971102>>,
       <<60825377, 24265381>>, <<40234045, 16671625>>, <<106619809, 12063942>>, <<93817444, 52333480>>, <<32762079, 5493196>>,
       <<77097845, 20149377>>, <<70490681, 33226696>>, <<117458966, 23050263>>, <<97904489, 30120752>>, <<38646352, 40866547>>,
       <<131556841, 4912427>>, <<15846520, 34355230>>, <<56119495, 11070419>>, <<101621735, 22954976>>, <<20399018, 62630703>>,
       <<65627516, 28299697>>, <<5262308, 64560007>>, <<89686414, 5209022>>, <<102618964, 37451829>>, <<76910239, 52955213>>,
       <<117504642, 54918763>>, <<42110478, 22825225>>, <<93320964, 23500073>>, <<79774974, 33331281>>, <<77832216, 53478515>>,
       <<61230843, 4614603>>, <<112738567, 6281120>>, <<126792950, 18115318>>, <<63632401, 46777701>>, <<89141000, 4362074>>,
       <<8142912, 49067272>>, <<94152665, 20777399>>, <<86856164, 38785314>>, <<133291080, 45717052>>, <<110316877, 29906445>>,
       <<38197765, 48092077>>, <<51780050, 59528266>>, <<89745048, 23287128>>, <<3028344, 63125856>>, <<61967692, 23854792>>,
       <<22555071, 40998116>>, <<15716331, 33131176>>, <<7912728, 14643675>>, <<103110486, 19289230>>, <<17359750, 49550727>>,
       <<33234300, 26702461>>, <<52472380, 61526495>>, <<116960277, 33320000>>, <<10815439, 11164652>>, <<60288912, 26953889>>,
       <<73744576, 18645468>>, <<118565770, 9188957>>, <<109961878, 28891818>>, <<115962032, 36924609>>, <<37369042, 47405480>>,
       <<55740154, 66200685>>, <<48153450, 45816768>>, <<118674352, 25530983>>, <<128544506, 15485471>>, <<20256261, 5569008>>,
       <<23651543, 10153462>>, <<31132723, 44192306>>, <<31317839, 809538>>, <<65090595, 55773744>>, <<79070818, 12236823>>,
       <<35265254, 18920050>>, <<549434, 9776177>>, <<56230047, 35875792>>, <<49560375, 40923819>>, <<76013032, 21381667>>,
       <<127922638, 8421592>>, <<92676489, 57660066>>, <<69188088, 63768449>>, <<82891895, 43954055>>, <<90758038, 49646114>>,
       <<7246803, 30644841>>, <<120733276, 58450444>>, <<104685732, 63880002>>, <<117375172, 45672621>>, <<107088717, 37532091>>,
       <<52664205, 26714000>>, <<53550032, 26448946>>, <<13896513, 32314449>>, <<85132904, 26873250>>, <<8354761, 12791589>>,
       <<9039243, 66079924>>, <<28019720, 29569968>>, <<21783965, 7377163>>, <<45641228, 40314124>>, <<7056578, 6870578>>,
       <<31310, 38036204>>, <<20302435, 36011870>>, <<13618316, 63682873>>, <<48802897, 41187210>>, <<3422671, 4718798>>,
       <<117350905, 13955468>>, <<82418944, 25248325>>, <<19938108, 42574506>>, <<33857462, 64120373>>, <<46625835, 40418272>>,
       <<48877189, 31819766>>, <<16487605, 7741243>>, <<113942385, 32753692>>, <<133291990, 65620590>>, <<62544046, 32238769>>,
       <<64939188, 20928054>>, <<11527244, 9671561>>, <<13715389, 50309765>>, <<45987803, 49684129>>, <<35535068, 32119774>>,
       <<111247085, 46443143>>, <<21667923, 34650623>>, <<3099855, 13771745>>, <<127639122, 63889044>>, <<70901507, 24276796>>,
       <<19676659, 46309651>>, <<72903368, 61347285>>, <<3629581, 50878112>>, <<70881649, 20004460>>, <<131332213, 43145434>>,
       <<115873524, 6107614>>, <<93441950, 56737027>>, <<35046288, 34789024>>, <<49217612, 60952199>>, <<22420002, 23870365>>,
       <<103607752, 14951368>>, <<71483341, 36343954>>, <<104562977, 33735426>>, <<44246886, 42710894>>, <<29936146, 41153049>>,
       <<108919195, 52908578>>, <<132194536, 50890156>>, <<114437900, 13096028>>, <<108190036, 16065034>>, <<109834788, 26889472>>,
       <<99304075, 53910299>>, <<30432459, 13416268>>, <<69476293, 33070029>>, <<47722796, 49056847>>, <<3889649, 66411172>>,
       <<3749650, 53023662>>, <<37502921, 31691494>>, <<34785794, 12995292>>, <<92948721, 40610192>>, <<128381280, 23104301>>,
       <<60025882, 54261928>>, <<125764856, 48528295>>, <<132612223, 23455867>>, <<128178014, 65398593>>, <<48940600, 5404822>>,
       <<29589952, 6855650>>, <<30446731, 31546533>>, <<26401454, 22665178>>, <<27430528, 32390314>>, <<83760773, 66118940>>,
       <<120837339, 40953999>>, <<112801347, 128064>>, <<64353833, 61015325>>, <<87641229, 23085912>>, <<107326366, 43159931>>,
       <<11378775, 56012333>>, <<88662305, 8046596>>, <<122108220, 26074192>>, <<104998915, 47747485>>, <<100682148, 13376098>>,
       <<64160468, 59660518>>, <<23960779, 29120218>>, <<105915964, 42670649>>, <<44629703, 5821684>>, <<107484719, 63496081>>,
       <<130413633, 48440837>>, <<53128543, 31082177>>, <<53873226, 49885555>>, <<127076943, 5698834>>, <<97280830, 10660649>>,
       <<22817504, 66646642>>, <<17050801, 1848772>>, <<20287103, 39648742>>, <<121447192, 31229370>>, <<108246863, 44013898>>,
       <<19619183, 41041991>>, <<110932358, 39988175>>, <<131574436, 31833554>>, <<88217056, 62912379>>, <<47030900, 10463105>>,
       <<73639904, 36794821>>, <<17580355, 1435906>>, <<1911654, 53643940>>, <<130310673, 48745869>>, <<87197858, 6896915>>,
       <<70676511, 50297840>>, <<125309000, 9344958>>, <<58224916, 66206210>>, <<117003355, 13073171>>, <<110884680, 58646896>>,
       <<28325623, 1878627>>, <<33800696, 14279410>>, <<39321318, 33632407>>, <<32284650, 51249682>>, <<78710264, 21876772>>,
       <<34811353, 36530895>>, <<56238912, 55981878>>, <<17592411, 4087233>>, <<122140421, 49655328>>, <<47484087, 60243895>>,
       <<61493326, 44457933>>, <<78295746, 54696880>>, <<121372658, 34679232>>, <<56455770, 55508404>>, <<123174438, 58932909>>,
       <<67330181, 8775373>>, <<71380338, 10189567>>, <<70263864, 34262230>>, <<2510524, 58572992>>, <<59072565, 52110446>>,
       <<24576324, 40839410>>, <<527808, 52079093>>, <<107262842, 10053074>>, <<23131984, 9499861>>, <<63551145, 41547180>>,
       <<97333793, 8075653>>, <<74688894, 4144327>>, <<43752583, 45790482>>, <<69571586, 35616442>>, <<74550146, 32379155>>,
       <<105263269, 52109368>>, <<14241764, 59272415>>, <<75201674, 3813298>>, <<33352343, 12838337>>, <<37167180, 2831919>>,
       <<103651130, 6559574>>, <<68144218, 30345012>>, <<75394042, 1870039>>, <<102004552, 59996134>>, <<122472071, 4252610>>,
       <<59491792, 21851561>>, <<82212100, 65321100>>, <<67854192, 40677211>>, <<68741149, 13381722>>, <<92976781, 18601606>>,
       <<60712824, 34101782>>, <<71576359, 54181156>>, <<64160948, 34074650>>, <<126366142, 16619899>>, <<93847435, 35112005>>,
       <<117646600, 58785797>>, <<126457337, 62264228>>, <<34841887, 61927000>>, <<75096671, 59911769>>, <<126603158, 13595485>>,
       <<112742862, 30033110>>, <<18405872, 27960039>>, <<16323822, 26331127>>, <<59340085, 21205045>>, <<9736972, 45040479>>,
       <<32297987, 28745322>>, <<9814103, 14273370>>, <<89855030, 20319226>>, <<105218111, 8210761>>, <<120396849, 52139063>>,
       <<20729474, 63049090>>, <<96115983, 43181735>>, <<88618129, 24574144>>, <<19190316, 16985779>>, <<118491817, 9211000>>,
       <<129861662, 31389220>>, <<29472579, 50108986>>, <<127842940, 6316651>>, <<53453132, 59386840>>, <<65399034, 10924998>>,
       <<132858297, 44817511>>, <<111728832, 15013069>>, <<21671607, 47400571>>, <<57917877, 66711083>>, <<69203339, 27099213>>,
       <<45515398, 28271385>>, <<26272404, 23932013>>, <<42751778, 6187036>>, <<96925444, 24558657>>, <<2614954, 22681432>>,
       <<74363365, 30780874>>, <<59117285, 47187690>>, <<2426922, 25792926>>, <<44492893, 34724398>>, <<83742074, 19827589>>,
       <<68754679, 64476499>>, <<8628964, 7573232>>, <<132215634, 61642722>>, <<105812298, 15337989>>, <<130418823, 58813688>>,
       <<14063279, 5641256>>, <<35643433, 18248273>>, <<5313436, 60793831>>, <<104555265, 12183707>>, <<36298660, 50719305>>,
       <<17388652, 55014321>>, <<56673996, 57014873>>, <<122327891, 45363822>>, <<109921497, 63485090>>, <<34709914, 27242697>>,
       <<20047826, 36010541>>, <<123369111, 34546476>>, <<76583954, 33192852>>, <<94008438, 21947853>>, <<12007414, 18727554>>,
       <<7721077, 53659412>>, <<92369388, 12304009>>, <<57085086, 60081573>>, <<9719255, 18047145>>, <<125943166, 1129557>>,
       <<85153029, 5943558>>, <<107592768, 17485341>>, <<11239731, 40814095>>, <<114921062, 14925547>>, <<8941925, 17747005>>,
       <<115799696, 8165642>>, <<60904451, 774861>>, <<45520180, 66726738>>, <<74231009, 28035421>>, <<124375445, 61433246>>,
       <<35951526, 41721812>>, <<17344259, 2899484>>, <<70721337, 47616203>>, <<32002360, 62956564>>, <<14690326, 65042771>>,
       <<21669330, 17575495>>, <<6761851, 12156500>>, <<27080875, 62562029>>, <<41874911, 42189403>>, <<40937131, 35640567>>,
       <<101938130, 13815805>>, <<38917884, 29909539>>, <<67120755, 45107706>>, <<23877318, 18154448>>, <<46573688, 53933981>>,
       <<2437810, 66739697>>, <<33614663, 2479629>>, <<2059721, 1237077>>, <<98392383, 33933864>>, <<73960561, 65635933>>,
       <<25428420, 34509720>>, <<63721294, 16487273>>, <<125445638, 30001390>>, <<14264840, 44179128>>, <<109913600, 43627874>>,
       <<58005893, 44057602>>, <<66437986, 36635148>>, <<112019985, 59641390>>, <<52759119, 65116562>>, <<68006237, 20654970>>,
       <<92307133, 14440560>>, <<131860937, 15405930>>, <<45997036, 13329463>>, <<111707608, 59185194>>, <<94855077, 48911904>>,
       <<85359381, 9376370>>, <<54317606, 66400064>>, <<46647663, 65892981>>, <<7299905, 56169336>>, <<17423955, 956645>>,
       <<9492255, 41973125>>, <<99440464, 59046020>>, <<34305229, 28906519>>, <<21910577, 3717904>>, <<11339367, 44642673>>,
       <<112913211, 25560543>>, <<116841608, 33953253>>, <<89998797, 65158008>>, <<37840444, 40183339>>, <<32509269, 46485338>>,
       <<39333645, 3035836>>, <<61666730, 12438764>>, <<21143713, 18054747>>, <<59837566, 243116>>, <<35331886, 24437112>>,
       <<129088803, 22073861>>, <<130543248, 66096278>>, <<73426945, 21711992>>, <<32809053, 2311680>>, <<129609599, 59216094>>,
       <<41546818, 14620730>>, <<47859883, 12278096>>, <<143467, 22503802>>, <<51221056, 5629800>>, <<63705589, 18718599>>,
       <<67479842, 44024614>>, <<26975086, 16655037>>, <<67744470, 52092455>>, <<664449, 6096954>>, <<35456120, 54830913>>,
       <<12046497, 9654626>>, <<53621481, 39379530>>, <<5592444, 26439459>>, <<3019113, 20108906>>, <<40835013, 42256430>>,
       <<31247171, 5669538>>, <<78595657, 64265943>>, <<71026618, 57260470>>, <<100735858, 10418794>>, <<88254017, 59914872>>,
       <<96099012, 52616107>>, <<117989555, 40034417>>, <<52280015, 51292066>>, <<43773065, 48363832>>, <<132168100, 33164580>>,
       <<20060604, 19070767>>, <<97194542, 41520735>>, <<86331453, 9714156>>, <<5877134, 55355225>>, <<112110664, 47983575>>,
       <<119714476, 34425586>>, <<84199092, 28806124>>, <<98495964, 47046889>>, <<109014177, 33926284>>, <<18697550, 61061526>>,
       <<70297512, 50524059>>, <<67695536, 38150013>>, <<112063426, 54553157>>, <<108002000, 1079094>>, <<110918754, 46068338>>,
       <<78391409, 53550671>>, <<119833578, 47726894>>, <<91656664, 64161288>>, <<93056658, 43143604>>, <<30862121, 5710407>>,
       <<4182295, 2809318>>, <<17863466, 42756391>>, <<48413337, 64392033>>, <<14081650, 25274423>>, <<112182022, 30292013>>,
       <<74964258, 3407809>>, <<84257475, 1264376>>, <<84050692, 35664592>>, <<91357199, 16412122>>, <<65671971, 17702841>>,
       <<444841, 30665296>>, <<107065153, 4705105>>, <<100430477, 62579327>>, <<67507631, 60254202>>, <<71833303, 6170118>>,
       <<88489679, 35298601>>, <<8865128, 50044952>>, <<98890055, 31800100>>, <<33848842, 54305753>>, <<9992509, 56783066>>,
       <<35642621, 15756196>>, <<97889691, 50763923>>, <<27543830, 15484439>>, <<99298112, 43616216>>, <<130960947, 30892898>>,
       <<66296682, 56742641>>, <<51346398, 5149925>>, <<64291655, 61100383>>, <<91764199, 19281662>>, <<102940985, 3137170>>,
       <<82808850, 42466008>>, <<86270186, 13307025>>, <<10398091, 40245539>>, <<19787058, 22264905>>, <<34083287, 43723730>>,
       <<99752931, 46498847>>, <<40858176, 41684721>>, <<76203685, 8955074>>, <<1673589, 32374705>>, <<8141783, 32601355>>,
       <<36074069, 65263974>>, <<90194525, 6678611>>, <<92903521, 14609160>>, <<90691946, 32857460>>, <<39038095, 47571522>>,
       <<69328247, 19162502>>, <<62365992, 31265859>>, <<62590981, 51483891>>, <<15905184, 66659261>>, <<119945407, 36847900>>,
       <<26742886, 20916132>>, <<131281814, 5761581>>, <<125661930, 31738813>>, <<2349408, 19433980>>, <<61602021, 5131428>>,
       <<110044805, 33998592>>, <<129937289, 66747090>>, <<60324287, 66703993>>, <<36058564, 25960953>>, <<28163874, 61508949>>,
       <<126914575, 62447217>>, <<28280856, 5007184>>, <<78043900, 6060138>>, <<19024111, 50162948>>, <<70338909, 17569702>>,
       <<127874643, 24129232>>, <<17797951, 40491189>>, <<110087663, 42390535>>, <<68282511, 18761483>>, <<119032624, 7561663>>,
       <<94400299, 24507387>>, <<31055781, 33412694>>, <<120488018, 58797111>>, <<65248694, 26446296>>, <<3333217, 10674689>>,
       <<481904, 63750707>>, <<65994334, 45740604>>, <<60500023, 27207230>>, <<40527182, 48800409>>, <<18885403, 27929447>>,
       <<46165549, 25240056>>, <<42423277, 8114089>>, <<112773900, 22234801>>, <<233724, 21780019>>, <<100761817, 22701091>>,
       <<112623544, 26726746>>, <<16111676, 63074347>>, <<124339150, 13135965>>, <<95700403, 786624>>, <<121006215, 49654373>>,
       <<38900721, 16992784>>, <<49958791, 4360556>>, <<52734062, 26183265>>, <<134055660, 58382827>>, <<79077952, 5127163>>,
       <<48413585, 62103582>>, <<57452267, 50711242>>, <<36930712, 57328100>>, <<6478434, 18833277>>, <<13651266, 3463992>>,
       <<112028315, 44424603>>, <<38335695, 42611678>>, <<125572749, 9993475>>, <<33463796, 65165297>>, <<35665410, 29275620>>,
       <<68580291, 21179649>>, <<25481107, 51887475>>, <<50110092, 52690032>>, <<128334329, 28705657>>, <<118684248, 1946916>>,
       <<108979730, 51113826>>, <<84677401, 26846341>>, <<122597678, 58769001>>, <<126258522, 37188576>>, <<73716154, 13652346>>,
       <<96579397, 5407424>>, <<6640560, 62643799>>, <<98294684, 27574093>>, <<60513461, 41266184>>, <<101021390, 9299445>>,
       <<86502078, 58349737>>, <<38414230, 32586392>>, <<6573568, 61196924>>, <<124389909, 36917136>>, <<17087436, 11459697>>,
       <<63375475, 27841229>>, <<46125647, 18907656>>, <<39966263, 17162607>>, <<99191263, 49576356>>, <<131036254, 43809862>>,
       <<34919299, 27260242>>, <<88046202, 16016538>>, <<40377563, 32425796>>, <<74802452, 44887507>>, <<52931147, 8035784>> >>,
    \* random.seed(8)
    <<
       <<30427945, 24857919>>, <<129157053, 25190617>>, <<16955846, 12959838>>, <<94598926, 2937922>>, <<11433373, 9183379>>,
       <<33210966, 54443008>>, <<134100762, 33981270>>, <<28104874, 26891208>>, <<86150123, 2032977>>, <<61623890, 32708999>>,
       <<60818405, 26204534>>, <<66435452, 38461762>>, <<25800786, 60219416>>, <<111470678, 27023650>>, <<12021294, 32554475>>,
       <<31431504, 50937258>>, <<2683187, 47054172>>, <<35804922, 34908542>>, <<54715717, 31831279>>, <<121073020, 61146793>>,
       <<50878641, 48721165>>, <<15264706, 44490639>>, <<34676050, 6520782>>, <<133090620, 54642224>>, <<8467619, 25928799>>,
       <<83237534, 55668966>>, <<50627616, 7229565>>, <<88696869, 3895955>>, <<45424458, 15731605>>, <<92784792, 5775047>>,
       <<66784128, 60625609>>, <<87204125, 34682608>>, <<120980499, 13953028>>, <<78052513, 54250316>>, <<19077436, 40716056>>,
       <<8640064, 36219717>>, <<126976874, 2514222>>, <<65587751, 47098326>>, <<26018643, 9946056>>, <<126975919, 57734597>>,
       <<77706935, 30619303>>, <<97836866, 39216162>>, <<118240407, 29872633>>, <<38339727, 37401116>>, <<47875025, 57380734>>,
       <<117853433, 28596426>>, <<18116136, 10623316>>, <<102581978, 40353357>>, <<13101863, 35689030>>, <<92634560, 21057864>>,
       <<94240362, 23959911>>, <<127506805, 43211831>>, <<113211709, 33194185>>, <<67594920, 41874972>>, <<26527886, 20722633>>,
       <<20154116, 23873245>>, <<70963623, 19082706>>, <<68422965, 44094294>>, <<9585941, 54232152>>, <<121228220, 57493640>>,
       <<68104387, 61274750>>, <<94126191, 36570028>>, <<29521864, 23099034>>, <<32733862, 60928419>>, <<1599362, 19844539>>,
       <<46067722, 14749945>>, <<35814967, 2258453>>, <<56828035, 17097515>>, <<50590158, 20022139>>, <<111980025, 47338314>>,
       <<119650771, 27979000>>, <<23521789, 44120100>>, <<53185646, 7802225>>, <<22304523, 62581957>>, <<89009361, 57184058>>,
       <<130841552, 1720225>>, <<27086245, 65301891>>, <<102874498, 10782748>>, <<40271325, 7817048>>, <<1774039, 53446700>>,
       <<102582363, 25531750>>, <<45877756, 56129631>>, <<22838088, 38193384>>, <<58466221, 60742421>>, <<31100832, 9330709>>,
       <<55042821, 37849217>>, <<59868269, 27323706>>, <<56097849, 5378071>>, <<78988303, 4695974>>, <<38754603, 48106588>>,
       <<12765679, 2283923>>, <<11442849, 44507460>>, <<14297329, 51289964>>, <<69919991, 35385432>>, <<48340379, 10311705>>,
       <<108407634, 62844897>>, <<67769657, 32765183>>, <<95049954, 9967883>>, <<131542978, 40563500>>, <<8452214, 12729199>>,
       <<2273941, 61244549>>, <<18842921, 22870209>>, <<51852731, 44171543>>, <<76996827, 8103322>>, <<99824695, 20093130>>,
       <<47170050, 21839537>>, <<129515020, 24564804>>, <<394624, 43342023>>, <<112162862, 33488637>>, <<28196721, 4071224>>,
       <<117464561, 41423634>>, <<4445487, 59250753>>, <<129541960, 58311127>>, <<101921976, 54258102>>, <<132937273, 54790251>>,
       <<77847341, 11540896>>, <<23863648, 22650746>>, <<130173583, 28926052>>, <<59260331, 8116901>>, <<11187692, 13452607>>,
       <<81255650, 15031258>>, <<66734134, 54450676>>, <<63510183, 53030127>>, <<20739253, 25574367>>, <<16377518, 7278622>>,
       <<77945132, 48382895>>, <<60758914, 43480837>>, <<16972081, 48274516>>, <<58986495, 34526344>>, <<97378212, 6068528>>,
       <<96031361, 62312404>>, <<63256563, 37839999>>, <<52848622, 54791796>>, <<48426829, 30557099>>, <<30268735, 3417600>>,
       <<26508923, 3283420>>, <<59890821, 7475622>>, <<14520082, 14174438>>, <<97326778, 308806>>, <<95069251, 40308703>>,
       <<82076602, 60837812>>, <<3035658, 43970559>>, <<48868422, 55651028>>, <<58038444, 35425368>>, <<12527302, 65676355>>,
       <<129893978, 50262309>>, <<101419101, 40278893>>, <<67455494, 54980376>>, <<94646419, 38183181>>, <<26934320, 33657049>>,
       <<30794162, 21750578>>, <<70563741, 25777252>>, <<99851419, 34882799>>, <<86875340, 13165108>>, <<897276, 19431913>>,
       <<82298124, 19896615>>, <<121983949, 5360281>>, <<99762693, 21543959>>, <<124497678, 60868565>>, <<131765700, 27036966>>,
       <<30020231, 42435665>>, <<39784733, 5343301>>, <<73462542, 28151039>>, <<131104342, 49944226>>, <<49560399, 54142080>>,
       <<126355659, 49711887>>, <<114149833, 21530419>>, <<69293145, 20278356>>, <<83901132, 55784559>>, <<128453360, 23949057>>,
       <<105129176, 60080639>>, <<39705229, 43713595>>, <<113510164, 7334894>>, <<26271921, 32561998>>, <<49656831, 25407169>>,
       <<128658906, 39256633>>, <<113689853, 61649924>>, <<41874738, 13774072>>, <<38989619, 26643733>>, <<82279955, 25734501>>,
       <<113096915, 61670808>>, <<91850425, 35142028>>, <<125634367, 46347622>>, <<97714922, 23876378>>, <<110182307, 45366847>>,
       <<81193285, 39267592>>, <<48611397, 45170465>>, <<57378279, 13145262>>, <<65758937, 55209797>>, <<70992287, 34045653>>,
       <<112500351, 5501544>>, <<36083857, 10968762>>, <<9211013, 33436443>>, <<98398902, 58143411>>, <<36357355, 66353812>>,
       <<56335929, 52349156>>, <<15709176, 41913118>>, <<111311233, 55362249>>, <<36768096, 66218491>>, <<39144096, 18394411>>,
       <<107941163, 55386329>>, <<67677481, 18025844>>, <<37222483, 66791446>>, <<119238696, 42424438>>, <<55271250, 16410637>>,
       <<48500985, 16494001>>, <<129579916, 16644063>>, <<106053834, 33870852>>, <<100312523, 30731507>>, <<33540874, 15718959>>,
       <<109155662, 54420608>>, <<80074162, 35248651>>, <<111363786, 13111945>>, <<49384130, 33329510>>, <<104792680, 7096603>>,
       <<106493421, 7491114>>, <<52068498, 5652168>>, <<87871221, 11456000>>, <<104722058, 38033557>>, <<133289334, 28694078>>,
       <<123540852, 3029158>>, <<105528621, 61076731>>, <<18361677, 1482375>>, <<81911180, 12834119>>, <<91944419, 17759281>>,
       <<11682958, 6404587>>, <<62101331, 30852368>>, <<116596551, 44910317>>, <<121524603, 18940518>>, <<124193658, 37991346>>,
       <<12441607, 8478513>>, <<81481770, 23996163>>, <<116099732, 65814874>>, <<87605116, 4427418>>, <<42938867, 53056860>>,
       <<5195721, 56076424>>, <<123452469, 5634104>>, <<115302215, 9214488>>, <<87730368, 53996134>>, <<49157203, 66769476>>,
       <<111191954, 5031514>>, <<109361188, 15484193>>, <<97269587, 2487145>>, <<80495394, 53034058>>, <<42854973, 14920286>>,
       <<39808299, 49932649>>, <<47981683, 64908510>>, <<43861176, 4436530>>, <<69800474, 60405966>>, <<15300031, 61505284>>,
       <<96822448, 40904974>>, <<46714028, 29162724>>, <<21439646, 10541742>>, <<34214031, 59965029>>, <<52249936, 9983204>>,
       <<57878093, 48841453>>, <<104985518, 4370726>>, <<13391723, 35867239>>, <<29877320, 5512662>>, <<39347022, 62077731>>,
       <<23714117, 22612926>>, <<100583529, 13349820>>, <<14631064, 63452771>>, <<6828645, 3837105>>, <<74605357, 52776450>>,
       <<98807195, 11924193>>, <<110740042, 11457884>>, <<75091861, 42922786>>, <<43857227, 19824173>>, <<118366749, 16257240>>,
       <<98804097, 33581413>>, <<64275484, 7446234>>, <<75543026, 48201999>>, <<125634758, 5568257>>, <<133862962, 9226975>>,
       <<124989679, 50305350>>, <<17804533, 15125947>>, <<43867740, 14632137>>, <<54736943, 11670037>>, <<22677591, 9061518>>,
       <<102281088, 29555791>>, <<8166737, 46629980>>, <<119111750, 30088890>>, <<78592632, 44818126>>, <<82377866, 19283184>>,
       <<55677972, 54652231>>, <<125696477, 29298089>>, <<77624114, 46073598>>, <<120333523, 49478839>>, <<123841905, 24967365>>,
       <<92894550, 37848444>>, <<131985019, 47648939>>, <<65716861, 58287778>>, <<49197100, 49291737>>, <<113280117, 52323034>>,
       <<70865580, 12580660>>, <<41448773, 17858411>>, <<91285266, 63459609>>, <<63870645, 55903091>>, <<17165056, 56301948>>,
       <<112452725, 18580877>>, <<67101518, 42632193>>, <<130401605, 33995884>>, <<71626812, 52937111>>, <<125740977, 34350084>>,
       <<38807727, 54150616>>, <<29191546, 38152693>>, <<70666466, 26216559>>, <<102908013, 9045385>>, <<110712505, 32800037>>,
       <<86897547, 31933538>>, <<16678641, 19542031>>, <<52891823, 2151266>>, <<4690972, 58313763>>, <<49859978, 33997644>>,
       <<126802058, 19870107>>, <<46579547, 25171530>>, <<93810403, 1855067>>, <<83406888, 66612637>>, <<19223537, 55717992>>,
       <<92395359, 971298>>, <<10698706, 55548075>>, <<24783852, 30126170>>, <<77835132, 63610201>>, <<17099812, 51526940>>,
       <<129448114, 56482817>>, <<57113246, 37856134>>, <<84595157, 38836171>>, <<129537259, 58865425>>, <<14500928, 25012640>>,
       <<134093910, 33713346>>, <<5315393, 66296209>>, <<80697679, 48031321>>, <<88036970, 24744364>>, <<132318268, 66041318>>,
       <<48068220, 7132186>>, <<127071668, 21461010>>, <<87268434, 6853597>>, <<63976250, 56594491>>, <<22782603, 43364257>>,
       <<31643860, 31999049>>, <<49014214, 38680709>>, <<46476524, 62591391>>, <<49894666, 50558194>>, <<108460453, 28825090>>,
       <<50320204, 49840311>>, <<84380748, 44978746>>, <<5178283, 49291812>>, <<18883970, 62330835>>, <<95284023, 44493440>>,
       <<119531708, 43668079>>, <<42027271, 4089948>>, <<4355537, 64378541>>, <<31221201, 34220444>>, <<48384864, 32453465>>,
       <<49180639, 31943687>>, <<75362866, 11618363>>, <<40497848, 9361221>>, <<86843473, 17881849>>, <<105484234, 1525858>>,
       <<105122063, 29587127>>, <<99513636, 19314917>>, <<78390667, 45934653>>, <<35003875, 30487461>>, <<112935356, 19894987>>,
       <<38866959, 27050523>>, <<115438288, 33367215>>, <<60012839, 44059704>>, <<84450257, 5979024>>, <<67007246, 60269525>>,
       <<87759709, 29446531>>, <<45771586, 9114184>>, <<77630198, 65142868>>, <<98859464, 7258347>>, <<48502285, 48162840>>,
       <<80592584, 44757727>>, <<61261529, 24275500>>, <<63086408, 38449095>>, <<51489230, 13636405>>, <<73367244, 35117302>>,
       <<95205937, 39600085>>, <<23318532, 52479304>>, <<19609727, 33838163>>, <<110492615, 2315229>>, <<11877166, 36788971>>,
       <<106446361, 44644514>>, <<101882967, 20897325>>, <<29213220, 9887842>>, <<85366571, 26896047>>, <<34013421, 63601193>>,
       <<118333933, 53630961>>, <<26481597, 64161662>>, <<15525198, 936626>>, <<4911366, 29736128>>, <<96438402, 55634604>>,
       <<28431493, 21233893>>, <<42184291, 1872526>>, <<131126474, 368345>>, <<98794806, 1115018>>, <<98999571, 8599869>>,
       <<77295579, 20294315>>, <<85979371, 20843985>>, <<1482403, 2965804>>, <<109059125, 14321772>>, <<44166966, 21256153>>,
       <<114709074, 6272620>>, <<55633461, 15737969>>, <<122310260, 56827143>>, <<61172, 58351928>>, <<131586756, 45737274>>,
       <<12863773, 34646706>>, <<68582254, 13593043>>, <<64630584, 61473414>>, <<132380560, 50733607>>, <<96213190, 54973475>>,
       <<131789246, 28293589>>, <<121568537, 7508821>>, <<57058444, 33996953>>, <<19832284, 5002701>>, <<19584450, 44151603>>,
       <<95218982, 52245985>>, <<127675042, 52796631>>, <<89254958, 47320964>>, <<46469955, 62827447>>, <<80161196, 29277185>>,
       <<88160454, 3344664>>, <<33957994, 27501467>>, <<93145880, 44531469>>, <<26727775, 66466801>>, <<3726633, 19107162>>,
       <<8624613, 51654112>>, <<65532515, 21144521>>, <<93419755, 10823377>>, <<30271989, 3704356>>, <<53267884, 55525395>>,
       <<93023945, 20755428>>, <<35314492, 20652870>>, <<70103940, 18570376>>, <<80919812, 1447168>>, <<54498988, 53330104>>,
       <<27977002, 47195070>>, <<92972350, 46631166>>, <<94095327, 14158731>>, <<25363923, 7509985>>, <<108358678, 51791203>>,
       <<87947904, 66496004>>, <<116295886, 62836331>>, <<104715219, 66400866>>, <<66349629, 10462074>>, <<96065116, 55349932>>,
       <<42210151, 16031115>>, <<87714503, 60839385>>, <<11052195, 29184310>>, <<46425633, 59928079>>, <<67920422, 55363328>>,
       <<118863805, 36874734>>, <<91783494, 33438714>>, <<122007500, 31078586>>, <<116674045, 41119699>>, <<130289926, 24479586>>,
       <<82890702, 9182569>>, <<82782845, 11118170>>, <<62933612, 6494038>>, <<29688612, 34813157>>, <<106915562, 22603651>>,
       <<81921663, 63482841>>, <<21703492, 37263394>>, <<32204482, 63212363>>, <<29642967, 28565040>>, <<96997158, 45378207>>,
       <<80179777, 61705253>>, <<26973327, 22668177>>, <<92288814, 8617339>>, <<75608144, 51965017>>, <<35781917, 4838789>>,
       <<59663847, 21696495>>, <<133234392, 38346075>>, <<18922776, 44348603>>, <<31759350, 48316098>>, <<79699995, 26691105>>,
       <<112733238, 1422498>>, <<123709792, 21140028>>, <<53575317, 23868853>>, <<103194834, 20827340>>, <<15905410, 7926123>>,
       <<51829122, 45494593>>, <<115013319, 62064879>>, <<89258037, 57579477>>, <<59946704, 27601055>>, <<80339833, 710673>>,
       <<65423466, 22684049>>, <<73543731, 48063485>>, <<118656475, 57726506>>, <<130949020, 61325245>>, <<26888244, 1096987>>,
       <<101345006, 1020921>>, <<126796115, 47277145>>, <<81508142, 46141260>>, <<67171885, 21401449>>, <<49999419, 47330098>>,
       <<64966382, 58810706>>, <<77935868, 6930462>>, <<82062547, 11761739>>, <<15299923, 3664034>>, <<134058094, 29851084>>,
       <<37040252, 5461056>>, <<73484401, 1892929>>, <<26613569, 16666697>>, <<84740213, 61808930>>, <<10015895, 4017285>>,
       <<45008501, 23129213>>, <<51631131, 47559417>>, <<42006906, 62061413>>, <<65394770, 40620160>>, <<21237077, 64727326>>,
       <<65855733, 49424540>>, <<106781194, 18442717>>, <<84377683, 63209847>>, <<130211524, 59850693>>, <<127521657, 3965218>>,
       <<64089762, 56178235>>, <<62800483, 39218944>>, <<102337707, 16525559>>, <<118080609, 54003216>>, <<72611430, 65850691>>,
       <<89562308, 52566963>>, <<92712093, 3879957>>, <<68980345, 51392528>>, <<68215641, 43627006>>, <<53824635, 63064767>>,
       <<60232798, 35109145>>, <<63633268, 58818721>>, <<107748997, 44863670>>, <<21447985, 65991483>>, <<15791280, 38500814>>,
       <<123934268, 41238201>>, <<68491835, 54197466>>, <<93535904, 11492266>>, <<122914695, 22120851>>, <<98817623, 19689303>>,
       <<76032261, 36660219>>, <<127786382, 26776117>>, <<83766896, 7753865>>, <<59948508, 37199732>>, <<24521233, 19999001>>,
       <<21378816, 50223082>>, <<106349883, 59429697>>, <<120330669, 66062999>>, <<47922202, 23697441>>, <<71003623, 3746228>>,
       <<91069762, 26856143>>, <<81437917, 64141796>>, <<36955202, 4735335>>, <<122319756, 16551687>>, <<74077066, 55904669>>,
       <<95869841, 64186460>>, <<92395994, 31660108>>, <<58830181, 19127548>>, <<94115749, 63289700>>, <<25487359, 32009158>>,
       <<73536540, 4433004>>, <<87443673, 4231011>>, <<84469285, 57012932>>, <<39225326, 4579936>>, <<24353816, 26497024>>,
       <<13595697, 36714526>>, <<16615840, 12213863>>, <<24732599, 48211753>>, <<65146120, 21649195>>, <<76305479, 15942479>>,
       <<94759778, 12961354>>, <<58786106, 16769323>>, <<103043963, 25459357>>, <<3973495, 34889205>>, <<46746678, 20459332>>,
       <<16014251, 35369507>>, <<69318427, 32954011>>, <<76836813, 2649801>>, <<78280607, 6339259>>, <<59532720, 48869832>>,
       <<49411310, 17090939>>, <<44094522, 60945015>>, <<14257829, 7065711>>, <<25943621, 58522004>>, <<65298612, 28482922>>,
       <<76186648, 30204850>>, <<13486934, 46362787>>, <<113433022, 8735442>>, <<3722952, 23651139>>, <<16927107, 26156201>>,
       <<60133228, 60263678>>, <<44687173, 44973436>>, <<69805536, 61173503>>, <<92603468, 28464832>>, <<79816828, 7424289>>,
       <<105363172, 25501731>>, <<63096343, 64015866>>, <<90769830, 42542011>>, <<56097657, 55902624>>, <<16944162, 52159274>> >>,
    \* random.seed(9)
    <<
       <<62143795, 41152177>>, <<50105079, 17927087>>, <<18594445, 12491976>>, <<116307962, 45408781>>, <<863698, 22704640>>,
       <<67482268, 31119825>>, <<120567512, 40580651>>, <<10846758, 22415971>>, <<74392922, 62839791>>, <<82765367, 46982801>>,
       <<5488936, 48868153>>, <<50871150, 11369194>>, <<94419539, 63499443>>, <<60669220, 63838729>>, <<97316626, 28359312>>,
       <<21093277, 11303010>>, <<31945457, 3444968>>, <<14891125, 8886929>>, <<67950281, 58500502>>, <<123994334, 66503782>>,
       <<79245966, 4249841>>, <<103912635, 46200476>>, <<51494623, 52988819>>, <<100139204, 59543276>>, <<13645840, 61670054>>,
       <<39081260, 13754640>>, <<90494424, 15052590>>, <<97402657, 53217037>>, <<56607050, 59698438>>, <<11772556, 51846982>>,
       <<35800373, 61161628>>, <<28170976, 26611544>>, <<37739933, 22928398>>, <<108650687, 2898748>>, <<26774184, 47566811>>,
       <<118970558, 353771>>, <<118027471, 27594339>>, <<7353702, 60116973>>, <<50843876, 56761111>>, <<65996432, 9337716>>,
       <<3151856, 15886903>>, <<57005671, 49407800>>, <<121656374, 57091632>>, <<15038595, 64693787>>, <<80107266, 260021>>,
       <<16271542, 51295542>>, <<77671839, 13265432>>, <<120165594, 57189931>>, <<27253338, 22160467>>, <<1107639, 59892998>>,
       <<11207663, 8937786>>, <<72446627, 61582950>>, <<2344091, 33608346>>, <<11386570, 38451912>>, <<66671535, 36076895>>,
       <<123604638, 13299329>>, <<56385864, 4618444>>, <<53436751, 12895940>>, <<85727216, 51331416>>, <<12538324, 47033090>>,
       <<77819459, 9754756>>, <<23159965, 63063237>>, <<81723610, 48293904>>, <<128624326, 2764890>>, <<7271004, 18119024>>,
       <<74498988, 45850452>>, <<81387055, 57175927>>, <<20039307, 50006152>>, <<36012032, 49451341>>, <<133531057, 38606500>>,
       <<133944497, 2297684>>, <<16285391, 58294789>>, <<94686347, 27002432>>, <<127630695, 60810162>>, <<31780892, 10854168>>,
       <<82024137, 33884028>>, <<5775488, 49391836>>, <<49116555, 56751672>>, <<90479491, 35034781>>, <<79223227, 37932039>>,
       <<103968407, 46151681>>, <<11641926, 58208277>>, <<46600147, 7379687>>, <<115968956, 59170457>>, <<78401920, 24532879>>,
       <<60572461, 14094915>>, <<53978384, 13339374>>, <<132348297, 63545600>>, <<77099484, 50043033>>, <<2465125, 25430517>>,
       <<107289605, 40785195>>, <<44118998, 41267>>, <<58193115, 7496571>>, <<28645714, 14878431>>, <<59594613, 18095054>>,
       <<43581779, 54673519>>, <<11920757, 20612724>>, <<84491424, 19118438>>, <<13833745, 34729119>>, <<105239956, 3701974>>,
       <<3407934, 25594100>>, <<104786643, 37610131>>, <<108387502, 28765424>>, <<66750583, 23224945>>, <<95220486, 52196134>>,
       <<33321005, 37985392>>, <<99001245, 4447984>>, <<57043476, 43476676>>, <<30998030, 6427351>>, <<129395925, 51052342>>,
       <<53808427, 34217280>>, <<50059110, 64145416>>, <<115414025, 37612080>>, <<49574657, 9337241>>, <<89591054, 19481531>>,
       <<22959251, 46482656>>, <<113182281, 58754949>>, <<34750588, 1971276>>, <<6778498, 63046840>>, <<130897040, 54330410>>,
       <<23186938, 17646997>>, <<127039657, 11020249>>, <<132360973, 8070665>>, <<81410789, 9953540>>, <<1593800, 3276682>>,
       <<8175297, 30228371>>, <<27998066, 52786421>>, <<52194408, 19746037>>, <<82080674, 992803>>, <<129712480, 53598916>>,
       <<47584359, 19126722>>, <<18876986, 32273764>>, <<75421256, 18637922>>, <<18428040, 64543402>>, <<11621679, 50163801>>,
       <<74619652, 19864917>>, <<93413951, 7914215>>, <<8804265, 28180843>>, <<60585942, 9564393>>, <<94468327, 37710180>>,
       <<102565194, 53344184>>, <<51405507, 39471647>>, <<119074836, 53871329>>, <<22693515, 44505815>>, <<96028286, 18398247>>,
       <<103576454, 40083345>>, <<118145923, 40834426>>, <<66362051, 23412332>>, <<13317949, 61954180>>, <<6504140, 18579178>>,
       <<70979396, 8613031>>, <<23263782, 53580470>>, <<84514719, 55054814>>, <<11310836, 10886725>>, <<104709833, 52992418>>,
       <<29851078, 57653847>>, <<1746738, 13615992>>, <<23602260, 31785163>>, <<61296901, 39696450>>, <<75060635, 36608303>>,
       <<52114597, 5583226>>, <<23226345, 36817233>>, <<64701220, 39790968>>, <<127028654, 17611969>>, <<71864172, 4468323>>,
       <<126337453, 43692155>>, <<3861888, 38991377>>, <<133298857, 39276515>>, <<119318771, 29242644>>, <<73061919, 20720622>>,
       <<70262366, 35365778>>, <<72091559, 43058089>>, <<122075644, 53426694>>, <<8801883, 58882903>>, <<86276559, 38512127>>,
       <<72766317, 64118216>>, <<40308021, 4316401>>, <<97298082, 15051995>>, <<96727522, 9224305>>, <<13852621, 6685296>>,
       <<93888064, 32995202>>, <<60871999, 4056519>>, <<65795638, 59652837>>, <<85464693, 48821738>>, <<7106568, 45553023>>,
       <<80922269, 1959822>>, <<50082371, 16350498>>, <<117941684, 30778940>>, <<31018426, 24912851>>, <<110477503, 64594110>>,
       <<97923854, 38465061>>, <<83884200, 33280680>>, <<117554515, 16314554>>, <<4831697, 41771894>>, <<80122510, 5679543>>,
       <<82312237, 3148119>>, <<91007129, 27498689>>, <<54583192, 39497361>>, <<9256290, 5418201>>, <<25379238, 2289146>>,
       <<81619943, 50509602>>, <<24335417, 5664855>>, <<8707583, 2004069>>, <<47619674, 41916179>>, <<63114775, 36709691>>,
       <<71882874, 31851530>>, <<3485856, 47214073>>, <<104095792, 5054269>>, <<44805816, 5677431>>, <<105068429, 21573932>>,
       <<1150309, 31128401>>, <<128049012, 30142423>>, <<79221374, 9971021>>, <<131045497, 25910065>>, <<132380933, 32093761>>,
       <<111774428, 9254805>>, <<14258660, 59907324>>, <<46810239, 45045942>>, <<31046771, 30298536>>, <<104687758, 8683596>>,
       <<25791648, 65007275>>, <<29682851, 7299766>>, <<14845333, 3538699>>, <<16118351, 5008571>>, <<125913793, 43306659>>,
       <<131022450, 5539880>>, <<49986426, 6953828>>, <<99462880, 1573974>>, <<62748033, 42047359>>, <<70063467, 13467389>>,
       <<49591887, 58675105>>, <<85189829, 5444914>>, <<31695941, 367189>>, <<34408680, 51227932>>, <<69501579, 45820746>>,
       <<26488887, 1038919>>, <<58955918, 16996303>>, <<126688373, 40987106>>, <<2984190, 64471590>>, <<13858486, 34859336>>,
       <<107370193, 27994685>>, <<7758224, 60324552>>, <<33720351, 31915495>>, <<114305139, 21145632>>, <<81235701, 58709946>>,
       <<29621986, 42878738>>, <<7866406, 45714073>>, <<36934518, 8873805>>, <<40285280, 2609968>>, <<107411665, 12528198>>,
       <<130936670, 23719066>>, <<105533884, 65874023>>, <<121030809, 27059243>>, <<124913870, 486765>>, <<117651966, 65593337>>,
       <<123476939, 20316018>>, <<129860805, 57656244>>, <<12672189, 1977514>>, <<42638072, 29482283>>, <<33176359, 27956051>>,
       <<81090386, 21592195>>, <<65995538, 37808477>>, <<46565722, 59111312>>, <<112354209, 59892363>>, <<53565191, 28862449>>,
       <<28042430, 5271789>>, <<37096233, 20192235>>, <<61974988, 31313687>>, <<81935753, 62049262>>, <<76294503, 30595580>>,
       <<59046841, 25838451>>, <<25009423, 22110757>>, <<53977784, 3951264>>, <<43623990, 6162315>>, <<22893205, 21308027>>,
       <<72998553, 1802754>>, <<25308378, 14166473>>, <<95509666, 24468191>>, <<88417620, 60172534>>, <<18480900, 63332054>>,
       <<83935900, 5765662>>, <<45344989, 65425170>>, <<60005579, 64580296>>, <<81410524, 40232502>>, <<102220725, 63118222>>,
       <<118591374, 44979022>>, <<98455468, 25827670>>, <<28351258, 46775385>>, <<72737842, 51766385>>, <<45012599, 5091131>>,
       <<2566468, 44947714>>, <<74150019, 28308094>>, <<63162471, 15257098>>, <<116354316, 48803859>>, <<43444660, 51267744>>,
       <<111879906, 53631924>>, <<69007236, 33712033>>, <<13300232, 31087247>>, <<96223149, 214557>>, <<38206171, 61583589>>,
       <<71605331, 13765181>>, <<9586504, 15014937>>, <<1449967, 65983655>>, <<123612932, 21115766>>, <<5639836, 6139887>>,
       <<20013424, 22049215>>, <<21917579, 46547946>>, <<12891519, 34199637>>, <<110604385, 53001247>>, <<133577907, 27096661>>,
       <<87132028, 56355034>>, <<53077626, 26133414>>, <<119243984, 39362726>>, <<67941999, 58276262>>, <<18098347, 34139904>>,
       <<92638671, 23985521>>, <<48183302, 63562305>>, <<36228572, 13555121>>, <<43009431, 61406638>>, <<51679504, 38071777>>,
       <<24485451, 53654403>>, <<82208806, 52152772>>, <<116556054, 11954975>>, <<76607735, 11512119>>, <<1268367, 20536453>>,
       <<91832879, 59561396>>, <<2700451, 18691025>>, <<64261790, 35067342>>, <<116196998, 50630028>>, <<90885290, 28663971>>,
       <<121897953, 65640106>>, <<101285289, 6290747>>, <<36615635, 19122742>>, <<19288601, 34691029>>, <<60596259, 32132333>>,
       <<91240295, 66705392>>, <<31146076, 12018334>>, <<44432668, 9842871>>, <<100410981, 45538493>>, <<46660899, 49903433>>,
       <<80650624, 3412013>>, <<73203824, 18695673>>, <<124671161, 23107176>>, <<3520239, 38826942>>, <<25019261, 36088355>>,
       <<104494228, 63795806>>, <<89802931, 51137498>>, <<12961354, 30430743>>, <<18059015, 22866165>>, <<28291808, 50186231>>,
       <<72898340, 9016835>>, <<121111247, 28372077>>, <<29069157, 34585402>>, <<27221840, 56315163>>, <<92044305, 38158589>>,
       <<56787176, 672048>>, <<113639325, 37238939>>, <<134080676, 3312802>>, <<125649918, 51911369>>, <<96055039, 23813293>>,
       <<66599452, 24969342>>, <<8174371, 24990451>>, <<108465918, 53597424>>, <<53492176, 59504227>>, <<62223512, 29352103>>,
       <<84845167, 48759735>>, <<129394984, 12799561>>, <<74622195, 6627026>>, <<123195919, 11143699>>, <<129403524, 39421963>>,
       <<11393319, 59790270>>, <<47598322, 17461267>>, <<119255635, 16583682>>, <<102999949, 31512071>>, <<130072092, 35267323>>,
       <<25009208, 51065029>>, <<71291546, 808383>>, <<125207222, 44442238>>, <<72453549, 22512810>>, <<89979541, 14962473>>,
       <<130851144, 66964716>>, <<23260557, 1885803>>, <<7582255, 48077918>>, <<114604470, 39365953>>, <<77989160, 65142295>>,
       <<26891191, 44106029>>, <<111710988, 22736594>>, <<38053181, 47456688>>, <<17417178, 22162697>>, <<39949781, 26547849>>,
       <<4840056, 5125940>>, <<54467578, 55158577>>, <<104632187, 16467094>>, <<60939054, 31158736>>, <<129466665, 46617165>>,
       <<5626036, 21097247>>, <<23229520, 56295830>>, <<19303782, 59260536>>, <<77100557, 47712895>>, <<26798516, 42753527>>,
       <<89556529, 53376957>>, <<70223081, 62041039>>, <<77958386, 25597378>>, <<113413938, 50792032>>, <<106013184, 59394836>>,
       <<123792927, 33673581>>, <<20412553, 55776658>>, <<50901739, 2218881>>, <<128902774, 67051298>>, <<53258931, 9405849>>,
       <<38325026, 27924547>>, <<64668048, 50216880>>, <<24277462, 56106549>>, <<113860759, 44670243>>, <<85365603, 41410728>>,
       <<12692475, 34383257>>, <<129422587, 33441735>>, <<69847939, 17515448>>, <<34052508, 25086097>>, <<82230311, 51810596>>,
       <<127451288, 57025719>>, <<46554540, 36030464>>, <<1870912, 66990780>>, <<26531742, 49548585>>, <<7872478, 43400705>>,
       <<70949278, 31101787>>, <<41806886, 62520760>>, <<114294425, 6929877>>, <<27677703, 57758839>>, <<2025110, 13289005>>,
       <<62365198, 48365486>>, <<16556758, 17094132>>, <<41665389, 19821587>>, <<30266121, 776579>>, <<23915327, 44878178>>,
       <<85390692, 27826570>>, <<125656220, 18243853>>, <<49675617, 63291891>>, <<85707053, 23368813>>, <<43369303, 37551311>>,
       <<122816284, 10769147>>, <<74207018, 45657670>>, <<3929534, 8932485>>, <<99565363, 65260612>>, <<28171048, 5977142>>,
       <<6294065, 14136425>>, <<2599385, 17337967>>, <<112777531, 59255415>>, <<95273847, 29439198>>, <<48058314, 23689637>>,
       <<74841912, 51841759>>, <<94679305, 60821472>>, <<10131387, 6302199>>, <<94733550, 27394178>>, <<95129517, 28604488>>,
       <<126478986, 11836250>>, <<7935516, 16259387>>, <<76829143, 10425028>>, <<68213052, 38455749>>, <<113565658, 28308330>>,
       <<48867648, 47153128>>, <<88910165, 12903044>>, <<120397805, 42963436>>, <<46812186, 48526243>>, <<69175720, 34605397>>,
       <<119931748, 27429692>>, <<4579460, 10817597>>, <<130733059, 36617377>>, <<42009335, 18573340>>, <<61381238, 19498530>>,
       <<38607983, 29271494>>, <<107064719, 65657668>>, <<71491847, 28442363>>, <<100358823, 51029255>>, <<13937883, 3822550>>,
       <<118165523, 24086133>>, <<110171883, 48845106>>, <<91310531, 44198897>>, <<29901383, 27703388>>, <<34845570, 24488549>>,
       <<60673806, 25127183>>, <<8736785, 66680342>>, <<127986240, 54139650>>, <<54737164, 34121641>>, <<127958647, 48983893>>,
       <<24551177, 4287608>>, <<86980889, 7931200>>, <<107207921, 48097726>>, <<86505023, 21644534>>, <<56790006, 33185427>>,
       <<2566948, 20737846>>, <<58449554, 5288400>>, <<52360137, 17367092>>, <<126835501, 13096140>>, <<130671056, 39225345>>,
       <<128427949, 65789525>>, <<131556601, 31606838>>, <<22669938, 40801200>>, <<3982219, 16246575>>, <<39201885, 47666963>>,
       <<1062024, 34812740>>, <<15950713, 39781541>>, <<77467979, 390178>>, <<26967085, 29566471>>, <<81971766, 6849751>>,
       <<51088269, 33970470>>, <<36785815, 46363286>>, <<130097960, 59540016>>, <<25000526, 65239353>>, <<118428596, 4960801>>,
       <<70709773, 35193333>>, <<88981713, 20670958>>, <<19328241, 57713357>>, <<99986353, 28260012>>, <<119395749, 12195797>>,
       <<26588488, 20477611>>, <<63455754, 19072774>>, <<87683479, 48965742>>, <<63713106, 54187441>>, <<100931731, 33944482>>,
       <<86477922, 64136663>>, <<42144975, 65730767>>, <<91412036, 33978571>>, <<103761975, 57761111>>, <<62196764, 3922120>>,
       <<79236558, 35672197>>, <<85178911, 47599150>>, <<64004607, 55074470>>, <<11920311, 5471729>>, <<54718811, 50597544>>,
       <<104421355, 56463415>>, <<97164640, 22628137>>, <<9958575, 53394849>>, <<64164635, 10914717>>, <<78883386, 63914482>>,
       <<71527913, 40914823>>, <<20102922, 66588544>>, <<86799996, 32799101>>, <<93596639, 27714211>>, <<71900337, 33353086>>,
       <<126111998, 7816711>>, <<77527198, 34185178>>, <<1651820, 47202815>>, <<38235115, 29390968>>, <<94228984, 39156250>>,
       <<10710385, 57718161>>, <<129521911, 38240829>>, <<93823853, 17760633>>, <<102674938, 37366190>>, <<22806351, 18489256>>,
       <<908876, 56670019>>, <<117178652, 22127457>>, <<68583674, 49457300>>, <<59330180, 59326529>>, <<69567741, 63959404>>,
       <<103105807, 67037703>>, <<49996796, 21748675>>, <<103717189, 11793745>>, <<21731535, 46699464>>, <<131572620, 21282999>>,
       <<93399395, 47506555>>, <<42758381, 22208514>>, <<64033711, 5501539>>, <<118296103, 52558426>>, <<43700926, 62436767>>,
       <<93822897, 19027035>>, <<122037731, 6302363>>, <<128935310, 37755945>>, <<34324204, 20157416>>, <<106668159, 4022494>>,
       <<81692618, 26409983>>, <<108523244, 31787724>>, <<9329787, 20506275>>, <<55431760, 15613962>>, <<60608037, 19744425>>,
       <<109325294, 25261926>>, <<60673896, 34264036>>, <<5640414, 66246354>>, <<28077263, 11027698>>, <<111607917, 46051500>>,
       <<118496524, 7976865>>, <<77012817, 4620923>>, <<10708136, 6277452>>, <<103770154, 44534383>>, <<116259759, 63593305>>,
       <<38541851, 596078>>, <<64673905, 59678815>>, <<39017945, 52168591>>, <<7176797, 29989357>>, <<98498185, 11468154>>,
       <<21337112, 55990347>>, <<11685113, 17864745>>, <<122055248, 66137927>>, <<12932579, 8093399>>, <<101968665, 57484411>>,
       <<109393977, 10656295>>, <<33658377, 42235422>>, <<49953071, 17450329>>, <<29922778, 13432210>>, <<95038043, 46654898>> >>,
    \* random.seed(10)
    <<
       <<76692358, 2186746>>, <<57564514, 32384165>>, <<77590101, 995388>>, <<27662036, 31043252>>, <<109162130, 32970344>>,
       <<110540227, 18624096>>, <<87707598, 54399706>>, <<21505647, 2308784>>, <<69883058, 32889086>>, <<43992922, 5106269>>,
       <<33553985, 63914430>>, <<127884920, 50032791>>, <<133755615, 24236945>>, <<5980256, 28212311>>, <<115448860, 9307279>>,
       <<80958873, 23829128>>, <<51218288, 28270548>>, <<38066592, 55488845>>, <<90592248, 17604071>>, <<61314839, 11721944>>,
       <<92054770, 20341039>>, <<88831509, 24332829>>, <<17848024, 30663947>>, <<103057446, 57716920>>, <<131857274, 16064539>>,
       <<130109076, 29504262>>, <<82319332, 25182131>>, <<5940561, 39119874>>, <<544272, 15814467>>, <<17981488, 13083094>>,
       <<126299186, 61041433>>, <<40649256, 35993514>>, <<49143230, 51811765>>, <<120553859, 16118359>>, <<42193195, 44740805>>,
       <<73683141, 30240797>>, <<58523084, 31539419>>, <<8723370, 43820593>>, <<78456466, 21789461>>, <<113288875, 33683081>>,
       <<20994191, 56517415>>, <<30104897, 65081078>>, <<55414501, 15997008>>, <<4955972, 2130484>>, <<66652993, 20210790>>,
       <<109787801, 40713418>>, <<88300627, 4834171>>, <<71602974, 62026553>>, <<114773034, 5432433>>, <<20090801, 25797913>>,
       <<76133056, 63455797>>, <<50220893, 61267881>>, <<80705730, 10043623>>, <<15155288, 64679290>>, <<104087552, 51884421>>,
       <<12966215, 29631974>>, <<22328963, 65896827>>, <<108374071, 12812834>>, <<127197325, 23399592>>, <<58147347, 65128255>>,
       <<55576988, 29904197>>, <<32948019, 45687014>>, <<36870065, 9631008>>, <<82846264, 35021227>>, <<23952550, 58041288>>,
       <<16036670, 17919883>>, <<61167697, 20305131>>, <<22137577, 44320149>>, <<87070372, 63285368>>, <<110200227, 11697610>>,
       <<104355812, 11817162>>, <<64442412, 51865041>>, <<46650224, 22015997>>, <<58345862, 15009949>>, <<672239, 36564301>>,
       <<95639956, 2930841>>, <<44514278, 60191710>>, <<42872261, 16282132>>, <<10727356, 17566904>>, <<60137048, 27165165>>,
       <<78228664, 10618772>>, <<52423691, 61781764>>, <<116708427, 33269908>>, <<90375938, 59960223>>, <<32401265, 49413655>>,
       <<70511799, 66590199>>, <<122209780, 18232983>>, <<69807941, 32386371>>, <<80813147, 33546379>>, <<8425333, 11160811>>,
       <<65684292, 45251136>>, <<61933597, 60262978>>, <<53838741, 9110737>>, <<56429878, 36325524>>, <<78508653, 23436463>>,
       <<72298667, 26026177>>, <<65752695, 47094014>>, <<22252821, 37495066>>, <<59236567, 6620374>>, <<130013786, 65362864>>,
       <<55723669, 55637712>>, <<4740278, 58519830>>, <<379893, 29432493>>, <<71862648, 4358097>>, <<6787785, 23463806>>,
       <<12447809, 10201355>>, <<14597038, 40817108>>, <<60945361, 55932019>>, <<133236336, 53655256>>, <<65103027, 9348241>>,
       <<61557656, 57850293>>, <<58587489, 51982623>>, <<67258138, 61917563>>, <<60007064, 23033731>>, <<97470954, 17389353>>,
       <<120519672, 52930760>>, <<93666572, 30752366>>, <<56815787, 22036864>>, <<87178322, 34874053>>, <<122076472, 35124056>>,
       <<20619512, 49636484>>, <<31855565, 21680315>>, <<83095806, 2207853>>, <<92210256, 13125037>>, <<86248341, 60711311>>,
       <<78990966, 38608982>>, <<111323296, 42173174>>, <<64282635, 1671198>>, <<108392742, 7809853>>, <<129165215, 19883049>>,
       <<58432584, 57124048>>, <<115272302, 16545054>>, <<96400860, 19415353>>, <<119276811, 5975816>>, <<6205675, 40080489>>,
       <<122554025, 36951546>>, <<102923325, 66013532>>, <<129168313, 7086919>>, <<131710454, 54808732>>, <<38317246, 10914141>>,
       <<89926054, 32032807>>, <<18961412, 24225256>>, <<79877367, 26888504>>, <<123423894, 52804599>>, <<25766222, 66159694>>,
       <<46958580, 12250330>>, <<10703283, 39693128>>, <<26126328, 28638466>>, <<27877379, 66187700>>, <<12885026, 45927736>>,
       <<134177199, 20703344>>, <<119122790, 64572391>>, <<62244809, 57926536>>, <<99818052, 50426405>>, <<93313102, 55521655>>,
       <<70122670, 48484442>>, <<56839435, 30039424>>, <<89130412, 49891735>>, <<74560615, 13992644>>, <<35687128, 40099600>>,
       <<48898947, 7779760>>, <<84190319, 52530443>>, <<84171815, 519930>>, <<28131198, 28445981>>, <<81842345, 27411501>>,
       <<117430950, 25625025>>, <<116948932, 54500081>>, <<87545299, 13404374>>, <<9418416, 51826560>>, <<56843635, 53493773>>,
       <<11948368, 55290108>>, <<7415502, 23354186>>, <<34184998, 24174098>>, <<61320558, 28465644>>, <<101924876, 12993623>>,
       <<84401682, 50294478>>, <<37914441, 31318427>>, <<93290590, 19730102>>, <<67982213, 33513572>>, <<68119471, 60937285>>,
       <<35382754, 27149512>>, <<59276680, 42916046>>, <<45838826, 23419598>>, <<97515406, 18593233>>, <<64773009, 60799947>>,
       <<59963860, 57262409>>, <<64022942, 39405497>>, <<64412614, 5633751>>, <<92561739, 36225840>>, <<96616321, 24630180>>,
       <<107521415, 48457623>>, <<54392657, 61127954>>, <<106507117, 11308473>>, <<129483324, 40461472>>, <<133190883, 27900121>>,
       <<96724757, 37865422>>, <<8789737, 39965617>>, <<113720872, 49227644>>, <<112267354, 20546979>>, <<2190140, 39713178>>,
       <<43978549, 43718536>>, <<43231157, 4957253>>, <<99380459, 26611055>>, <<81913923, 25097553>>, <<37892623, 40650574>>,
       <<25013562, 16162994>>, <<22619766, 20650950>>, <<12811515, 37319680>>, <<106108876, 54836789>>, <<125592326, 3578175>>,
       <<29511302, 38254002>>, <<99980489, 4958623>>, <<127660349, 28296814>>, <<25733192, 38220475>>, <<76758373, 66027070>>,
       <<58963549, 61398896>>, <<130843618, 53992650>>, <<116714650, 39824880>>, <<2153941, 26338822>>, <<27021689, 22773015>>,
       <<113814495, 59595082>>, <<77073332, 12803411>>, <<70171620, 62588233>>, <<108691338, 37854198>>, <<102547941, 51725445>>,
       <<128143885, 56076117>>, <<43848695, 58401132>>, <<6396015, 44133077>>, <<92916622, 38806197>>, <<6729415, 2452880>>,
       <<75857071, 24559592>>, <<115391859, 62758340>>, <<53288228, 21780931>>, <<80686173, 42839479>>, <<23008966, 51855982>>,
       <<21170928, 7879583>>, <<81343334, 52970524>>, <<116028966, 23179588>>, <<134195980, 11024470>>, <<4179369, 48513777>>,
       <<123612155, 36017188>>, <<68601130, 54054161>>, <<46889724, 5919476>>, <<53340093, 29477105>>, <<77563009, 59116714>>,
       <<46667086, 4003509>>, <<19529883, 62006887>>, <<116173953, 29846266>>, <<94823407, 31595407>>, <<81853344, 30307418>>,
       <<96980231, 29656422>>, <<132342156, 40545077>>, <<23500571, 23742149>>, <<110618059, 28425938>>, <<110367815, 55361211>>,
       <<46083364, 64132456>>, <<74997724, 34414455>>, <<61524749, 26054311>>, <<26083371, 6511727>>, <<58102528, 43027133>>,
       <<20476105, 2774530>>, <<125118184, 57724300>>, <<25160908, 42953282>>, <<85078128, 12759275>>, <<76505783, 28774082>>,
       <<130816335, 61036424>>, <<106514933, 60461911>>, <<48343999, 37521699>>, <<50481466, 64441701>>, <<6697212, 40628044>>,
       <<6957542, 11106050>>, <<41738148, 64179351>>, <<127484124, 14986670>>, <<6649420, 38923008>>, <<23722076, 6686898>>,
       <<85387454, 37886893>>, <<48380365, 56101079>>, <<24907727, 20309481>>, <<127155841, 57063383>>, <<5740404, 26562239>>,
       <<80270204, 51232757>>, <<57548391, 5217124>>, <<46350466, 50971891>>, <<26163193, 32995121>>, <<21851906, 11299626>>,
       <<54442383, 54280763>>, <<100978146, 64646187>>, <<62844322, 63155828>>, <<104329605, 22028565>>, <<117932063, 2504709>>,
       <<23233925, 55925996>>, <<118064859, 11824466>>, <<78034669, 47391246>>, <<56457041, 10276735>>, <<68901443, 43067714>>,
       <<119449321, 46764865>>, <<52608695, 65045853>>, <<12655803, 26615734>>, <<128813948, 54570676>>, <<15888509, 15773754>>,
       <<14338119, 28363686>>, <<96864061, 42869019>>, <<41720006, 48537325>>, <<38918564, 35808375>>, <<87180221, 57001404>>,
       <<119649254, 6648505>>, <<46383267, 55945307>>, <<121764397, 35018274>>, <<83180408, 31889748>>, <<81581398, 16410507>>,
       <<71474547, 19503362>>, <<1640187, 44636654>>, <<21213594, 64683125>>, <<90874425, 25931749>>, <<93067779, 15361965>>,
       <<13005021, 34245074>>, <<85495488, 51138288>>, <<63660268, 6692449>>, <<77438556, 60794153>>, <<53570415, 39109486>>,
       <<29238837, 19281634>>, <<47709966, 4681376>>, <<130031931, 59230090>>, <<25300260, 41769740>>, <<115735477, 37456346>>,
       <<71302511, 1751813>>, <<10048395, 26857278>>, <<108880272, 2098292>>, <<2320250, 43831873>>, <<112368325, 28893561>>,
       <<45432392, 55962344>>, <<123294959, 11957915>>, <<97575515, 3179239>>, <<48107035, 21773847>>, <<83930503, 31952378>>,
       <<132435989, 52830879>>, <<22963893, 1265559>>, <<27590995, 8543350>>, <<38815977, 64371745>>, <<110147445, 13525391>>,
       <<33142410, 60814086>>, <<33069128, 25926100>>, <<82504072, 36576504>>, <<78460405, 39966443>>, <<56202211, 58636202>>,
       <<73969344, 51064948>>, <<4173608, 8412016>>, <<733063, 8266851>>, <<3713748, 56275476>>, <<7382122, 46015839>>,
       <<103444775, 51504060>>, <<131419083, 11936065>>, <<16728693, 46516763>>, <<51710234, 4523737>>, <<1963382, 44430078>>,
       <<58247774, 49545666>>, <<88807793, 12270776>>, <<83769902, 28303065>>, <<121004766, 3207366>>, <<74046778, 11376322>>,
       <<7082694, 47160562>>, <<50509743, 38800956>>, <<61619976, 30552726>>, <<45072304, 12465228>>, <<4633744, 26765412>>,
       <<84217399, 30858898>>, <<65609187, 63928203>>, <<95206182, 47846624>>, <<48933677, 44692099>>, <<9469898, 9331023>>,
       <<35609783, 16991127>>, <<23632272, 6116404>>, <<61839706, 892781>>, <<20616531, 18658223>>, <<10546328, 61046708>>,
       <<70450755, 20701338>>, <<18896185, 51466028>>, <<14029377, 36042367>>, <<16157766, 19311501>>, <<94676506, 41494290>>,
       <<108267453, 22457186>>, <<108684264, 235362>>, <<77281601, 17425700>>, <<85256055, 62621890>>, <<101158384, 34727005>>,
       <<57398585, 58758883>>, <<68418720, 9793575>>, <<95703353, 3982440>>, <<85078761, 3799017>>, <<81714218, 4048832>>,
       <<86746206, 14157174>>, <<71883795, 981841>>, <<28711662, 9840243>>, <<41043691, 57740178>>, <<92784609, 56501081>>,
       <<56224994, 10127404>>, <<115216277, 1806676>>, <<50213798, 34641524>>, <<89839141, 47645106>>, <<15511149, 32065778>>,
       <<40203355, 31149493>>, <<114231103, 31117967>>, <<23560988, 60678485>>, <<84008664, 9445257>>, <<3728389, 27031524>>,
       <<81777044, 10335238>>, <<60588906, 44046658>>, <<120715293, 47011026>>, <<110790818, 54867954>>, <<103777592, 12015625>>,
       <<45458625, 34001739>>, <<89797567, 31496003>>, <<20772683, 2895105>>, <<65736307, 39624402>>, <<52260461, 11170565>>,
       <<63036645, 47107049>>, <<36788014, 65886648>>, <<28416530, 33194373>>, <<69773220, 23718757>>, <<87727459, 64482270>>,
       <<75533377, 51607067>>, <<127913626, 57354402>>, <<74685356, 25476797>>, <<20031677, 59797120>>, <<86116132, 63933909>>,
       <<42490229, 49566731>>, <<125968515, 21298073>>, <<17434914, 3705607>>, <<61425662, 3577813>>, <<90427361, 22449429>>,
       <<130123830, 35424582>>, <<70048353, 3248970>>, <<51019686, 40931062>>, <<104192156, 61723618>>, <<105624012, 5456060>>,
       <<122631109, 46833714>>, <<96829541, 2410632>>, <<17126500, 2228953>>, <<133069416, 658377>>, <<124914029, 24568019>>,
       <<58420546, 14861767>>, <<88489417, 32048182>>, <<111976841, 37993204>>, <<123062073, 44423622>>, <<97043903, 62838486>>,
       <<12159249, 6907043>>, <<9103788, 64378093>>, <<49161358, 54245746>>, <<61202603, 28705787>>, <<41786054, 11921292>>,
       <<100594556, 8498865>>, <<102501168, 42293718>>, <<53646301, 36464820>>, <<93689288, 36265266>>, <<25840857, 45689911>>,
       <<127693722, 50039737>>, <<32410696, 48276468>>, <<20968251, 56261835>>, <<51291667, 14642121>>, <<115836466, 34602363>>,
       <<80293872, 32845581>>, <<92087954, 55680637>>, <<109827667, 44522556>>, <<51795570, 52896405>>, <<128784612, 12798370>>,
       <<132516648, 4558093>>, <<71829579, 48955163>>, <<100578274, 10396043>>, <<114590081, 40679792>>, <<79408540, 36113443>>,
       <<17474390, 4794459>>, <<88154879, 26577043>>, <<61163351, 5955038>>, <<114655232, 63666625>>, <<28085976, 62936227>>,
       <<1580648, 30478279>>, <<24003451, 44566404>>, <<22925013, 24627270>>, <<51581108, 42403885>>, <<27890019, 16635874>>,
       <<44823642, 20071461>>, <<79063493, 17385265>>, <<20797049, 3996297>>, <<65039889, 27965832>>, <<47723384, 22931251>>,
       <<658984, 21848764>>, <<90488971, 19692213>>, <<67311648, 60232109>>, <<104182580, 46885612>>, <<117689236, 39486748>>,
       <<6447582, 27281005>>, <<95845740, 19045615>>, <<61644672, 11436301>>, <<117338861, 55344211>>, <<15503170, 59802945>>,
       <<112578871, 28054097>>, <<57660574, 66495213>>, <<12441704, 8098233>>, <<62028946, 10842931>>, <<117725765, 53205124>>,
       <<9856346, 55014581>>, <<50832223, 35654314>>, <<10751434, 64059678>>, <<947239, 34912914>>, <<110956855, 48616169>>,
       <<73919464, 17441527>>, <<76596696, 32415038>>, <<120699747, 58038585>>, <<11406547, 28286002>>, <<126747153, 7778403>>,
       <<101078121, 27311358>>, <<114204984, 31994678>>, <<109416138, 14813794>>, <<52855210, 60169782>>, <<3112680, 29786266>>,
       <<133886817, 30787732>>, <<84947153, 38127460>>, <<95519734, 33091635>>, <<93367077, 28159608>>, <<40097565, 37708313>>,
       <<88168298, 10415578>>, <<60500059, 11179158>>, <<30438523, 31698063>>, <<67046716, 38417382>>, <<62780729, 27081113>>,
       <<40524549, 65288271>>, <<100587973, 36987904>>, <<121989770, 30075985>>, <<80269070, 50983396>>, <<3113267, 33607254>>,
       <<73074097, 24668277>>, <<84672923, 47304462>>, <<109453662, 31136916>>, <<40725645, 12330307>>, <<31460675, 14968660>>,
       <<50163343, 40480457>>, <<21557032, 35638305>>, <<104602593, 55865270>>, <<3638172, 36345480>>, <<75804880, 53661504>>,
       <<111832565, 57528971>>, <<4348541, 3918258>>, <<22074390, 28189158>>, <<133136127, 51110266>>, <<41278735, 11050903>>,
       <<103063255, 13134485>>, <<3813658, 11277658>>, <<62674417, 21084270>>, <<5761009, 33831483>>, <<32944934, 2389577>>,
       <<2319865, 9505679>>, <<91183485, 32838329>>, <<60944754, 51758180>>, <<47245021, 1486559>>, <<56434919, 42360884>>,
       <<91297602, 23918053>>, <<34746112, 1155147>>, <<20749381, 17167845>>, <<5620323, 9453939>>, <<87753490, 46023629>>,
       <<89186582, 60120393>>, <<32110280, 7673012>>, <<69154330, 47889798>>, <<130107701, 62390379>>, <<63535533, 52151767>>,
       <<102828127, 19894380>>, <<47046766, 21490500>>, <<74098171, 28617043>>, <<104520960, 58029933>>, <<93674217, 22073183>>,
       <<80177533, 55032699>>, <<39549561, 28823365>>, <<7577189, 7206372>>, <<64724543, 44667866>>, <<97005051, 48036760>>,
       <<48278995, 32611367>>, <<97512504, 29342728>>, <<63212384, 23962163>>, <<9376112, 10584100>>, <<77970963, 12817504>>,
       <<73708236, 50812501>>, <<43181858, 19364095>>, <<26723167, 336116>>, <<132279329, 48964666>>, <<78602533, 28832927>>,
       <<97232769, 51467929>>, <<5663399, 51202263>>, <<98421838, 11500252>>, <<21675960, 53464088>>, <<64841840, 24183443>>,
       <<52843504, 8058225>>, <<52199183, 16648834>>, <<106127921, 64518731>>, <<27195876, 60639826>>, <<126842348, 38553364>>,
       <<114078482, 5198781>>, <<65956243, 54887905>>, <<117607390, 3595717>>, <<73785741, 56268209>>, <<123256399, 17224429>> >>,
    \* random.seed(11)
    <<
       <<60717355, 58098981>>, <<75131377, 57503102>>, <<124045444, 52426656>>, <<62498494, 30321953>>, <<68161301, 57381141>>,
       <<78837457, 12744109>>, <<24784691, 53948836>>, <<68707214, 31927930>>, <<84541427, 41202079>>, <<106431554, 12493904>>,
       <<12633036, 29970359>>, <<40721828, 9515710>>, <<12169593, 36151109>>, <<108668649, 59752423>>, <<93071737, 42577405>>,
       <<5621083, 39959067>>, <<131827769, 26585845>>, <<129487597, 30399970>>, <<87767996, 49587805>>, <<82619427, 43625524>>,
       <<21138499, 41817442>>, <<2013364, 55814551>>, <<70918133, 4238926>>, <<7992814, 2392617>>, <<25529320, 59026606>>,
       <<32473041, 40239688>>, <<4037616, 52217971>>, <<62268229, 21897176>>, <<59127085, 39658616>>, <<113068655, 13107795>>,
       <<69675659, 15679693>>, <<85938498, 19740177>>, <<67078417, 308282>>, <<88912471, 5703499>>, <<61381777, 43942994>>,
       <<37334392, 27298458>>, <<133903148, 36994951>>, <<133639469, 62524336>>, <<112771822, 5583690>>, <<95000599, 17045298>>,
       <<42315791, 50867851>>, <<30825235, 34419105>>, <<38794285, 1996617>>, <<9425238, 37791837>>, <<102849419, 7242852>>,
       <<53740752, 7234543>>, <<113626530, 19522162>>, <<51876968, 4484650>>, <<128586272, 1133500>>, <<113723992, 45962691>>,
       <<73140, 14327855>>, <<28147794, 62212745>>, <<122174630, 3511309>>, <<63080624, 25196909>>, <<131581549, 47573416>>,
       <<53341398, 28171724>>, <<9803040, 37999840>>, <<84484008, 13320447>>, <<104489958, 45292387>>, <<36208666, 22608495>>,
       <<11696296, 20884924>>, <<44638887, 1016666>>, <<129396119, 27518051>>, <<101742475, 61931261>>, <<15836575, 9032616>>,
       <<33069630, 47447042>>, <<13562206, 735178>>, <<8038756, 31201584>>, <<106974416, 32670158>>, <<23847554, 45773442>>,
       <<75067323, 12642334>>, <<60052350, 34149381>>, <<25593228, 66121115>>, <<98233178, 51641747>>, <<17578104, 28134082>>,
       <<86397981, 25753146>>, <<15637437, 26498161>>, <<56472862, 66441281>>, <<28570347, 31602>>, <<36211268, 58004468>>,
       <<130315891, 65421549>>, <<107832066, 39778150>>, <<40821670, 66968184>>, <<118764585, 1317394>>, <<28281047, 12569984>>,
       <<52918645, 66829403>>, <<114672526, 40400777>>, <<86145723, 38719119>>, <<13466434, 2825807>>, <<132781826, 9821959>>,
       <<28621040, 29631360>>, <<34665427, 642583>>, <<103708654, 40958765>>, <<44151649, 55719783>>, <<39772036, 25915427>>,
       <<9851387, 4984913>>, <<12095322, 14007855>>, <<78213340, 42720657>>, <<32616642, 1040796>>, <<80702951, 24741374>>,
       <<49889272, 41751728>>, <<60828562, 8537662>>, <<128732876, 39411107>>, <<64924407, 55858682>>, <<77117647, 9109219>>,
       <<116303106, 25910533>>, <<24538720, 42093691>>, <<20687692, 20858192>>, <<121926569, 15326548>>, <<109763519, 40966258>>,
       <<33487130, 48680163>>, <<25474614, 10635124>>, <<99243861, 42209950>>, <<126219008, 37173693>>, <<26385835, 46102044>>,
       <<127525075, 26052327>>, <<118405504, 32381114>>, <<81004991, 5267898>>, <<56567031, 3181065>>, <<13937126, 7318038>>,
       <<5193752, 34383617>>, <<129208925, 17124749>>, <<31998471, 49649060>>, <<94567054, 26280567>>, <<34491459, 28240436>>,
       <<110557537, 60721714>>, <<80056352, 32950419>>, <<39384225, 34901589>>, <<23546271, 62359984>>, <<96684186, 65577320>>,
       <<9230975, 8482572>>, <<30654837, 32165272>>, <<75076879, 43856152>>, <<114407174, 41330373>>, <<82450355, 4975456>>,
       <<37610410, 14253939>>, <<123125998, 61401114>>, <<27377581, 50263540>>, <<2224631, 4640868>>, <<36130597, 27610369>>,
       <<59821582, 16714404>>, <<8114210, 3127148>>, <<23656381, 18922141>>, <<49497534, 35635049>>, <<76795279, 65301294>>,
       <<17660170, 6186908>>, <<48606300, 9288424>>, <<119579973, 30222191>>, <<131599599, 22210681>>, <<88171926, 49184428>>,
       <<92774191, 35026731>>, <<78442244, 63542317>>, <<18837080, 39585883>>, <<4708429, 61980899>>, <<2401718, 31862811>>,
       <<122166647, 23989543>>, <<94082603, 20924859>>, <<129220938, 2250955>>, <<2853358, 40156112>>, <<85387241, 5022001>>,
       <<64724583, 4514451>>, <<98045779, 20875088>>, <<42802636, 9167460>>, <<134131510, 4860833>>, <<10101615, 30406406>>,
       <<73295678, 24681022>>, <<98919203, 2983991>>, <<120822245, 62830637>>, <<98930294, 49469251>>, <<94447756, 8693580>>,
       <<106470450, 64651293>>, <<122809567, 22925332>>, <<47222373, 5699342>>, <<91958733, 31761178>>, <<120908153, 5212298>>,
       <<116917231, 57532132>>, <<55989346, 63366829>>, <<106103409, 2031362>>, <<115893340, 33549443>>, <<76880921, 975261>>,
       <<83880784, 44443868>>, <<51315937, 25446098>>, <<78205837, 835315>>, <<81720732, 4848554>>, <<10764534, 6083313>>,
       <<85819394, 7756465>>, <<133321447, 17260619>>, <<118083660, 27933815>>, <<97738299, 22155983>>, <<52135041, 62696555>>,
       <<98655150, 46584052>>, <<77974175, 30719471>>, <<59125928, 31046052>>, <<112524120, 36322795>>, <<11245059, 34809175>>,
       <<100691505, 34529611>>, <<3998323, 20819517>>, <<80703142, 5887611>>, <<64552931, 1495901>>, <<30899825, 64249742>>,
       <<93728894, 7575579>>, <<66739842, 52341299>>, <<82477231, 44300680>>, <<123542623, 32634859>>, <<34336950, 60157624>>,
       <<1517627, 24692797>>, <<40403917, 9611356>>, <<91018004, 41054390>>, <<27189077, 34788874>>, <<22764286, 50584734>>,
       <<121563895, 22986414>>, <<88582358, 62431472>>, <<59315173, 33441087>>, <<119685561, 16205697>>, <<43883911, 27162793>>,
       <<89375459, 16817434>>, <<26642994, 42558638>>, <<57833785, 53936315>>, <<108177931, 50642341>>, <<122704692, 13441360>>,
       <<118147694, 14373999>>, <<51595802, 14735592>>, <<78263321, 61794070>>, <<42478145, 14085650>>, <<18277277, 9029681>>,
       <<66634678, 23538107>>, <<112353071, 60106249>>, <<113913311, 2722770>>, <<95458032, 4304296>>, <<127506861, 65790847>>,
       <<37150929, 55153931>>, <<22700098, 7571851>>, <<60485145, 31631876>>, <<36931728, 62124814>>, <<28733381, 55760496>>,
       <<55564099, 25672368>>, <<83984536, 34894952>>, <<66286829, 45107041>>, <<42328465, 48068507>>, <<112624566, 56499089>>,
       <<131806708, 41928030>>, <<60730480, 21498070>>, <<10023274, 55614951>>, <<4225949, 18664566>>, <<117149132, 40772295>>,
       <<5568478, 45516903>>, <<95110833, 18862311>>, <<76582214, 23770947>>, <<41477351, 43572870>>, <<106235146, 37852015>>,
       <<2565439, 43015811>>, <<18237660, 27191777>>, <<61046573, 12745214>>, <<3318735, 51621019>>, <<111356212, 17878640>>,
       <<31864497, 52294869>>, <<18907858, 53475518>>, <<6300524, 66035968>>, <<84447151, 7737976>>, <<59925634, 7316221>>,
       <<84552368, 35929520>>, <<87918388, 42944024>>, <<108365368, 24741903>>, <<128642411, 5232370>>, <<91871061, 13290932>>,
       <<26755152, 55286819>>, <<63772520, 17182702>>, <<23982841, 47930688>>, <<1445077, 50670612>>, <<63377544, 35893076>>,
       <<95854403, 2427663>>, <<24038235, 15197246>>, <<36554860, 52249878>>, <<46404374, 36217924>>, <<93591574, 63539933>>,
       <<69849985, 33582350>>, <<82469769, 66894704>>, <<101496366, 10683218>>, <<52816851, 56959442>>, <<106291345, 46962167>>,
       <<121633069, 15027205>>, <<11705082, 27546995>>, <<125171966, 59904661>>, <<96955823, 26036373>>, <<17436214, 30232740>>,
       <<60872592, 13212173>>, <<83959654, 59547429>>, <<122133483, 451412>>, <<50573611, 36910752>>, <<76344928, 43800195>>,
       <<118020443, 33732297>>, <<106940288, 54992355>>, <<126736164, 23024889>>, <<62237798, 21908849>>, <<87419034, 65923308>>,
       <<27500456, 6641404>>, <<96896562, 58126903>>, <<109836478, 53573429>>, <<86116282, 62024055>>, <<96322957, 8286875>>,
       <<28628182, 16259933>>, <<120793772, 26187393>>, <<131599563, 5895000>>, <<131178840, 20794191>>, <<72069094, 65548487>>,
       <<106137651, 62563565>>, <<43002652, 17574680>>, <<122136752, 48202164>>, <<114861312, 1050123>>, <<46775823, 33871135>>,
       <<11109548, 2492078>>, <<59176756, 22954861>>, <<73860274, 28280819>>, <<103110554, 18472170>>, <<65424094, 61723920>>,
       <<3813174, 14649497>>, <<108600953, 58220224>>, <<8597566, 28785293>>, <<107355374, 2355809>>, <<23205749, 35777209>>,
       <<44963519, 46075835>>, <<105750941, 61472204>>, <<18857617, 31578880>>, <<19954894, 67097046>>, <<69326800, 60436043>>,
       <<97115436, 34776647>>, <<112739729, 45492178>>, <<92525882, 29538854>>, <<126936066, 59051689>>, <<66113142, 38852753>>,
       <<127393343, 46242242>>, <<11545879, 50857726>>, <<29717706, 29489117>>, <<70687565, 37498753>>, <<38945914, 55778182>>,
       <<97823678, 37683718>>, <<85747833, 11029362>>, <<70166709, 34508384>>, <<113229215, 60881969>>, <<75158047, 17214322>>,
       <<41835338, 45050090>>, <<51166076, 64074507>>, <<113448952, 58389400>>, <<120866424, 40898460>>, <<27949442, 20431697>>,
       <<114188582, 9472438>>, <<129981865, 36555004>>, <<70360415, 18318197>>, <<76905292, 33396565>>, <<26973364, 27587348>>,
       <<71927774, 7669242>>, <<67534885, 331235>>, <<81232293, 25302069>>, <<3725282, 36126133>>, <<130111318, 2949630>>,
       <<69258732, 61562558>>, <<53765465, 36507003>>, <<107517602, 66397618>>, <<75546688, 8182647>>, <<65906333, 6256024>>,
       <<92742673, 11191827>>, <<8844978, 62466664>>, <<72305162, 30798596>>, <<55535817, 61792699>>, <<128428256, 53713540>>,
       <<123939164, 27122676>>, <<36133263, 16527400>>, <<63506661, 33087124>>, <<17041301, 22795593>>, <<58207220, 60458021>>,
       <<109483689, 62793061>>, <<120870508, 61741372>>, <<63959138, 35230931>>, <<42575829, 7288938>>, <<25696214, 28154802>>,
       <<82932447, 1973961>>, <<124187728, 17463253>>, <<17376021, 47117582>>, <<104594377, 65584171>>, <<3058277, 2390743>>,
       <<26052547, 10437378>>, <<30502230, 794081>>, <<92212147, 19064354>>, <<43229147, 48560160>>, <<47693879, 16405879>>,
       <<83183629, 33475424>>, <<14077494, 33532716>>, <<98098898, 39073243>>, <<16479701, 57171294>>, <<68513996, 41844117>>,
       <<33628740, 48163778>>, <<26538716, 47067980>>, <<71182624, 58970676>>, <<58623084, 1560281>>, <<50430458, 42480354>>,
       <<55485878, 55376875>>, <<71047845, 41325261>>, <<21438396, 36116891>>, <<27416150, 57971257>>, <<84733664, 35836452>>,
       <<85693612, 14652800>>, <<71084261, 14507014>>, <<114253937, 36436172>>, <<82102479, 39369056>>, <<114992946, 9158058>>,
       <<31226880, 61392766>>, <<99424677, 42136581>>, <<108784575, 23326760>>, <<121155327, 12155763>>, <<42395863, 40475201>>,
       <<42277031, 59770014>>, <<123851686, 13065101>>, <<29278833, 52231805>>, <<133996782, 13055488>>, <<119123829, 6500283>>,
       <<17976078, 59657826>>, <<32124674, 8894712>>, <<97519448, 5915271>>, <<34829166, 26031457>>, <<13021250, 29178748>>,
       <<111691769, 63162211>>, <<56590300, 36458686>>, <<106023391, 47300943>>, <<16911873, 13465113>>, <<54060055, 42143877>>,
       <<91967987, 53610441>>, <<2383529, 6446265>>, <<26968913, 38245344>>, <<91587914, 23997297>>, <<122322409, 55094634>>,
       <<129973530, 24248000>>, <<15490100, 47292398>>, <<67871344, 42591417>>, <<101757765, 23051686>>, <<67482719, 67014016>>,
       <<92030764, 55898266>>, <<25368128, 53877930>>, <<9469346, 32351411>>, <<14250342, 1631061>>, <<5024557, 51136766>>,
       <<74044095, 41162124>>, <<69098550, 60740309>>, <<76335282, 32297947>>, <<19670255, 12721903>>, <<24768042, 7713962>>,
       <<27368876, 11575718>>, <<112771653, 10605030>>, <<132916001, 18998146>>, <<124405380, 45160094>>, <<12783758, 38908294>>,
       <<8314128, 9022804>>, <<127707488, 45698829>>, <<62018085, 5208028>>, <<102639045, 6490363>>, <<43866013, 26231806>>,
       <<62674292, 28618132>>, <<69160667, 23794803>>, <<57724528, 14098574>>, <<80655432, 25041937>>, <<1777848, 42547443>>,
       <<94090666, 2743252>>, <<113315044, 13439957>>, <<24329538, 27377453>>, <<60928269, 24130207>>, <<99231761, 24843288>>,
       <<54398725, 61865147>>, <<26189355, 40592290>>, <<22156215, 6362031>>, <<68794745, 53173651>>, <<2069323, 21722918>>,
       <<119881261, 5692516>>, <<107603179, 56499378>>, <<94579413, 58762351>>, <<115525463, 60984571>>, <<84474802, 63054587>>,
       <<54292401, 38230843>>, <<80477640, 12814292>>, <<67684480, 39232838>>, <<131893110, 22882414>>, <<108021299, 51163446>>,
       <<34663640, 18757985>>, <<122312485, 7803017>>, <<99916361, 49860361>>, <<104419779, 10739897>>, <<109339360, 62665966>>,
       <<54443631, 8939910>>, <<120332242, 22139932>>, <<118090328, 36163214>>, <<93254313, 24821427>>, <<102981209, 28967121>>,
       <<102707316, 12183583>>, <<54458240, 13880043>>, <<96990341, 12402887>>, <<9469282, 53508112>>, <<45864702, 20246033>>,
       <<62926692, 6768814>>, <<1421983, 59595903>>, <<47732814, 66476637>>, <<85726483, 60579481>>, <<83754584, 3326573>>,
       <<31152900, 18319077>>, <<126792223, 64520100>>, <<89401565, 20056582>>, <<45340844, 14498723>>, <<88551653, 27255010>>,
       <<76447135, 12211220>>, <<71548743, 5156240>>, <<52290431, 34540805>>, <<134202563, 33393034>>, <<86203384, 14308867>>,
       <<94120275, 8026921>>, <<102238972, 26533133>>, <<131545011, 38581768>>, <<3062917, 7701993>>, <<82597109, 7251610>>,
       <<99159370, 15906886>>, <<34444764, 29772611>>, <<53895887, 33873956>>, <<6772214, 51090330>>, <<26232330, 43487187>>,
       <<50422474, 723449>>, <<13213613, 17351507>>, <<33673544, 18501356>>, <<121553381, 22873906>>, <<73827493, 36271503>>,
       <<68158369, 27896299>>, <<129806834, 34941890>>, <<76232784, 56799923>>, <<133560753, 6686706>>, <<85632601, 29819420>>,
       <<108653038, 43262046>>, <<10226852, 36870656>>, <<80200002, 44857526>>, <<101904570, 64112048>>, <<6055047, 25932410>>,
       <<124843133, 62988599>>, <<21465652, 25897477>>, <<63318760, 65100291>>, <<22699257, 57423201>>, <<66507689, 36369896>>,
       <<82030063, 40034614>>, <<7857820, 28828512>>, <<126872449, 33187556>>, <<56465917, 19088168>>, <<70700294, 26747426>>,
       <<80239654, 20964443>>, <<49066690, 35595078>>, <<38352771, 32429863>>, <<87927583, 18103005>>, <<75248396, 62376035>>,
       <<38054547, 44532957>>, <<96180662, 50180560>>, <<39733883, 1802632>>, <<1880721, 51840790>>, <<32886405, 39312907>>,
       <<5741030, 42479414>>, <<21016808, 27434491>>, <<101286672, 45924551>>, <<52338949, 3542774>>, <<120466063, 21148958>>,
       <<100443597, 26693966>>, <<6732121, 39040352>>, <<132710388, 48524145>>, <<126762918, 21423824>>, <<9865577, 53525467>>,
       <<121540979, 15012586>>, <<57648626, 48259647>>, <<64103520, 16839147>>, <<130616407, 50700691>>, <<32709974, 3049020>>,
       <<70244115, 6608407>>, <<125798377, 54369482>>, <<97004220, 61033694>>, <<62860920, 9688140>>, <<131375102, 64421342>>,
       <<109615087, 16454019>>, <<81016946, 47406108>>, <<15447556, 3382269>>, <<83785144, 27994997>>, <<61161500, 7916490>>,
       <<27334371, 57789397>>, <<6986798, 23937535>>, <<70880343, 10383360>>, <<16686740, 24380788>>, <<59440215, 9380359>>,
       <<89642847, 27982601>>, <<61143346, 40335848>>, <<35182413, 42922370>>, <<78146480, 45768669>>, <<56308607, 24428962>>,
       <<104416929, 49920059>>, <<71238241, 54702574>>, <<133900248, 9192132>>, <<127860504, 19470232>>, <<98554025, 8648427>>,
       <<31998986, 32286333>>, <<15283178, 33752299>>, <<119816114, 20709939>>, <<105268147, 34047816>>, <<83882915, 56811790>> >>,
    \* random.seed(12)
    <<
       <<63695798, 18051945>>, <<88244465, 35509365>>, <<89444099, 23473699>>, <<19139495, 25611495>>, <<1457663, 66882185>>,
       <<50298696, 32382631>>, <<36782118, 43178430>>, <<108763074, 30884725>>, <<92689776, 58005180>>, <<80726197, 15276954>>,
       <<74919000, 111795>>, <<88761013, 41891559>>, <<19502210, 65635183>>, <<59063154, 24672933>>, <<21779151, 22795550>>,
       <<121597635, 14109749>>, <<7895267, 38669105>>, <<109900177, 13397182>>, <<10013935, 34461734>>, <<92200264, 54978928>>,
       <<45231319, 45730411>>, <<54306409, 53544553>>, <<113065466, 5861984>>, <<2497026, 61666785>>, <<8158383, 55006026>>,
       <<122813736, 44429104>>, <<68306880, 14981649>>, <<12210858, 66400994>>, <<132490881, 28441364>>, <<127065670, 29779102>>,
       <<15103203, 44349870>>, <<56801829, 65184276>>, <<18128721, 36204604>>, <<41948501, 59191966>>, <<83409868, 37457830>>,
       <<21947836, 65508595>>, <<93527541, 59429931>>, <<6892525, 37255509>>, <<22979966, 34040814>>, <<109481085, 5610488>>,
       <<53756709, 40764541>>, <<56215781, 44838715>>, <<79989870, 31513659>>, <<63990750, 40889189>>, <<51617640, 36315905>>,
       <<4092886, 42998524>>, <<97486017, 5547477>>, <<129850133, 12875936>>, <<131037273, 52835175>>, <<89066353, 17553245>>,
       <<47827841, 63155334>>, <<48738289, 58125122>>, <<92625595, 25876787>>, <<90432257, 20797212>>, <<15278326, 16936780>>,
       <<31537465, 22497082>>, <<48764304, 24915241>>, <<68632302, 38468797>>, <<108730730, 51343783>>, <<67110491, 12039898>>,
       <<3777325, 25562791>>, <<110403156, 57652115>>, <<57734343, 2195451>>, <<69658639, 1727445>>, <<29818877, 45342396>>,
       <<57343592, 2918126>>, <<52109512, 13717404>>, <<103605157, 40754433>>, <<13772507, 50552819>>, <<73815907, 14806946>>,
       <<23897403, 5233215>>, <<93401518, 18373532>>, <<4945398, 29090512>>, <<37117594, 33440329>>, <<46194854, 40404086>>,
       <<85487248, 48712737>>, <<6987216, 34495162>>, <<61641107, 24716567>>, <<28023780, 22794171>>, <<37835413, 30576864>>,
       <<63922861, 46771372>>, <<128680991, 57414304>>, <<64562016, 16100246>>, <<128297635, 66339019>>, <<22489925, 31187328>>,
       <<124050700, 36833142>>, <<48881127, 12207190>>, <<25398326, 51434782>>, <<100465697, 14756179>>, <<122412190, 40729276>>,
       <<895802, 63598944>>, <<36004448, 61435000>>, <<103437946, 53779256>>, <<45874242, 12048726>>, <<32425221, 53347919>>,
       <<1158279, 33648829>>, <<5371788, 16613183>>, <<83091121, 7788553>>, <<132045423, 24223089>>, <<134015748, 36679174>>,
       <<67591978, 10388898>>, <<3209087, 62243946>>, <<43279368, 59187721>>, <<105683325, 44868148>>, <<111663013, 18752930>>,
       <<85820300, 7926052>>, <<30804877, 52625091>>, <<70764562, 33702189>>, <<64073999, 32866404>>, <<84155099, 23738876>>,
       <<35256054, 45938097>>, <<127060891, 29852100>>, <<120033385, 49581057>>, <<21763088, 30118260>>, <<39100493, 41398376>>,
       <<117194840, 3086762>>, <<37353470, 22146002>>, <<126688604, 57858809>>, <<69145216, 42965211>>, <<93411699, 29870054>>,
       <<94582667, 53157396>>, <<28731922, 49258416>>, <<38254821, 34962409>>, <<34217682, 1913761>>, <<91710292, 247770>>,
       <<93161159, 1829356>>, <<17680744, 37448126>>, <<118975563, 17839630>>, <<56414778, 9286416>>, <<32377489, 13439790>>,
       <<58422157, 31659996>>, <<131463251, 3945201>>, <<75152771, 38265755>>, <<83851004, 48237892>>, <<123471465, 62841621>>,
       <<129115803, 17308397>>, <<102063763, 2630977>>, <<56056813, 28935698>>, <<78978468, 6232546>>, <<120925015, 27160991>>,
       <<105929035, 13354108>>, <<77868235, 37374854>>, <<46637721, 65767515>>, <<49455220, 42819712>>, <<98762144, 25839555>>,
       <<75608502, 10799416>>, <<2296735, 46225055>>, <<95312212, 10430337>>, <<121306832, 2073341>>, <<107069680, 2545490>>,
       <<120457269, 4898365>>, <<122206617, 27881900>>, <<71797601, 13433115>>, <<105913378, 62213011>>, <<50931780, 53177711>>,
       <<13192770, 47666334>>, <<47401566, 12679422>>, <<41891127, 18166169>>, <<125362501, 53215646>>, <<92491118, 46075335>>,
       <<72694030, 32998973>>, <<83497979, 41012533>>, <<16739695, 14221342>>, <<71706480, 40198387>>, <<94035482, 45575078>>,
       <<52902859, 38968983>>, <<32985235, 4813862>>, <<54610819, 23874577>>, <<43431941, 5526774>>, <<91976834, 22311555>>,
       <<19033232, 46072363>>, <<12151735, 48366508>>, <<41939992, 20843707>>, <<93384859, 12060332>>, <<101955409, 45527550>>,
       <<88502251, 42757548>>, <<125454200, 29261010>>, <<49070604, 11797548>>, <<3991674, 14036293>>, <<65474469, 41808266>>,
       <<59550943, 32572674>>, <<24074557, 3802791>>, <<89576455, 39876703>>, <<45803820, 30665751>>, <<31990072, 59343470>>,
       <<43949513, 6501215>>, <<126674174, 15054814>>, <<1036753, 64684804>>, <<48360119, 24594360>>, <<37539752, 56961002>>,
       <<27022786, 46202834>>, <<58043060, 19867836>>, <<29578858, 34655076>>, <<123327492, 9844484>>, <<67247719, 60578244>>,
       <<93696610, 22314690>>, <<21789732, 33601902>>, <<62361602, 26095529>>, <<81407120, 33614177>>, <<113129079, 47380246>>,
       <<33537828, 30881590>>, <<61690758, 52709941>>, <<114731979, 3304382>>, <<111624858, 51826846>>, <<30535190, 27349469>>,
       <<72207848, 46899913>>, <<102179662, 53141639>>, <<53054952, 34991204>>, <<90380694, 29522307>>, <<89023053, 3506292>>,
       <<130518087, 7134796>>, <<74340740, 38279746>>, <<91373170, 20941813>>, <<47006974, 51135928>>, <<98281643, 1141497>>,
       <<43253621, 52013909>>, <<67095466, 60109278>>, <<48431136, 42448661>>, <<41231300, 11432406>>, <<18241794, 32015658>>,
       <<30289486, 53747234>>, <<73054762, 9025752>>, <<33802760, 33192510>>, <<6161993, 28795719>>, <<107858418, 24480340>>,
       <<38336730, 27415268>>, <<125645782, 42109610>>, <<80368298, 18978377>>, <<52221128, 54554525>>, <<117185210, 52977306>>,
       <<120423159, 40748905>>, <<43079489, 9945166>>, <<16889864, 17401384>>, <<86026096, 2186168>>, <<113103571, 44171863>>,
       <<81671865, 53424537>>, <<105271689, 25395271>>, <<55354518, 28443107>>, <<82920187, 44189785>>, <<35325942, 22806422>>,
       <<54613525, 51584983>>, <<50961055, 33047939>>, <<51626879, 63074924>>, <<53626907, 54674630>>, <<108338200, 12261139>>,
       <<22793756, 52934174>>, <<27526661, 56086023>>, <<34181606, 7358700>>, <<130330862, 17979151>>, <<70162459, 59570370>>,
       <<7103297, 58276851>>, <<112124872, 43822280>>, <<117243744, 49791450>>, <<110212719, 48011222>>, <<48156544, 65786448>>,
       <<98602875, 61407023>>, <<41002860, 51728005>>, <<18424885, 57643409>>, <<116135929, 20873493>>, <<111808341, 58563908>>,
       <<28347790, 50264762>>, <<118085968, 57682945>>, <<3300631, 37286339>>, <<41394651, 2856824>>, <<1738866, 54377778>>,
       <<22956962, 13114065>>, <<21912213, 13212485>>, <<96076987, 54267296>>, <<39807307, 62208827>>, <<25508476, 65869542>>,
       <<24704197, 51908548>>, <<41870831, 36652492>>, <<115718564, 1457718>>, <<81451870, 61122948>>, <<13734320, 24469542>>,
       <<91938315, 33436114>>, <<71973747, 13438591>>, <<60190254, 6585598>>, <<70809296, 416707>>, <<87442332, 8497306>>,
       <<107469225, 26357442>>, <<67817705, 32639607>>, <<85301977, 19690719>>, <<62718733, 23883888>>, <<85102931, 56396314>>,
       <<52140784, 57233305>>, <<55682720, 59911471>>, <<69344576, 1890609>>, <<95967307, 56702377>>, <<37380747, 1378143>>,
       <<124132929, 10405558>>, <<65974181, 50809084>>, <<114824431, 24591205>>, <<92663563, 6914422>>, <<128356141, 56591883>>,
       <<91597079, 53430879>>, <<57288647, 36827212>>, <<54474269, 64601748>>, <<81561534, 25164259>>, <<101182793, 4818311>>,
       <<112615325, 61529482>>, <<17355692, 23381757>>, <<8373313, 15549222>>, <<14514726, 28391163>>, <<11307139, 54079749>>,
       <<7574058, 56163283>>, <<1127826, 62614912>>, <<33490533, 2079472>>, <<15189973, 46077118>>, <<91971641, 37902478>>,
       <<82652989, 61974014>>, <<129608246, 48702650>>, <<128918532, 43643975>>, <<100223722, 56741858>>, <<127455187, 65608103>>,
       <<3767126, 39808064>>, <<30593450, 39397701>>, <<124305949, 53913938>>, <<63814337, 42226074>>, <<27728144, 30932839>>,
       <<101576792, 22597556>>, <<56847698, 43613095>>, <<72892737, 55729685>>, <<42403342, 53694112>>, <<32443238, 26223279>>,
       <<11700531, 44025168>>, <<81450380, 22637607>>, <<127875515, 3941244>>, <<132436264, 53476537>>, <<102707053, 46007364>>,
       <<125279790, 66275459>>, <<48617395, 9537572>>, <<40020577, 8217942>>, <<123950928, 32586517>>, <<80546649, 9173725>>,
       <<89805418, 18644523>>, <<1683089, 13253220>>, <<30672990, 8269195>>, <<64749570, 29254570>>, <<98112945, 22823646>>,
       <<110837455, 27201170>>, <<101642882, 21322276>>, <<45593143, 39864964>>, <<51221056, 51354953>>, <<115743242, 59175642>>,
       <<132817365, 54444358>>, <<65094789, 22987603>>, <<26141197, 59688216>>, <<83810432, 42649262>>, <<71930595, 41577401>>,
       <<48541970, 4318100>>, <<30938572, 22908123>>, <<51720484, 17885762>>, <<82194760, 37877073>>, <<17023623, 56269238>>,
       <<72602483, 44709646>>, <<127815647, 29551133>>, <<99984552, 18726712>>, <<33840318, 23046107>>, <<56167141, 66492518>>,
       <<13735255, 8003315>>, <<98925547, 39385765>>, <<84807209, 33047008>>, <<23195946, 24338690>>, <<73560351, 10470564>>,
       <<79974268, 41678208>>, <<77467913, 18537810>>, <<50787238, 22528964>>, <<41585789, 25121236>>, <<47626425, 60853564>>,
       <<133890487, 61482288>>, <<44339657, 63318200>>, <<67440500, 40150911>>, <<61729206, 4776277>>, <<23221103, 41921927>>,
       <<53654919, 59682829>>, <<27509257, 63105848>>, <<43263211, 41643367>>, <<49276137, 41338749>>, <<46962246, 57604468>>,
       <<125888374, 9519558>>, <<39845022, 22569333>>, <<44611362, 66553814>>, <<88254842, 43105159>>, <<53318110, 2874885>>,
       <<69221072, 22051786>>, <<86911622, 36063902>>, <<9887948, 56032757>>, <<90136031, 35264803>>, <<13578190, 58086664>>,
       <<33584853, 10984504>>, <<108686021, 32580993>>, <<132815141, 6084657>>, <<90426398, 20860721>>, <<23031422, 53226285>>,
       <<58822537, 15337395>>, <<37935693, 4508259>>, <<112899842, 46158410>>, <<31301402, 12596845>>, <<26340191, 18384361>>,
       <<85642005, 8188011>>, <<85521318, 14236826>>, <<79154650, 12283889>>, <<64269278, 49895758>>, <<128724119, 20811294>>,
       <<61531781, 8888963>>, <<125764751, 32451612>>, <<52578501, 29619248>>, <<62459064, 26086849>>, <<48238605, 18321262>>,
       <<95981742, 60599509>>, <<100864079, 13185305>>, <<32103534, 39610312>>, <<70600044, 52639704>>, <<97509019, 32544354>>,
       <<67318680, 44240214>>, <<88904046, 48026862>>, <<82703298, 56987815>>, <<95876190, 22791484>>, <<47684472, 26775798>>,
       <<41147290, 9173855>>, <<3309409, 4987198>>, <<119499032, 44944358>>, <<106015440, 19598452>>, <<52382421, 45096119>>,
       <<129815463, 19454154>>, <<121124305, 32264942>>, <<20334804, 46304547>>, <<112296988, 34918257>>, <<56485759, 38732731>>,
       <<42179450, 12030892>>, <<34781068, 28362941>>, <<55541562, 55765890>>, <<6952784, 9542353>>, <<6768988, 30402294>>,
       <<15685597, 35645019>>, <<41245600, 16485703>>, <<21273289, 14145879>>, <<16352052, 52297449>>, <<111655951, 37024719>>,
       <<50957428, 34370387>>, <<65803971, 20633750>>, <<80698455, 6251144>>, <<125222448, 12922507>>, <<19610355, 56281813>>,
       <<30611722, 25497185>>, <<115476028, 35486319>>, <<122091045, 17206566>>, <<125063663, 64215587>>, <<70918566, 55053901>>,
       <<49264426, 52704488>>, <<25320403, 8445837>>, <<122222322, 13916669>>, <<102721460, 56640115>>, <<74042520, 7268539>>,
       <<106218970, 16042816>>, <<34993467, 2300667>>, <<71635888, 36663127>>, <<121673450, 29767773>>, <<14573824, 32848966>>,
       <<82861537, 34882475>>, <<24878129, 64710865>>, <<112443450, 38124172>>, <<112643401, 56816275>>, <<86446530, 3881449>>,
       <<58513214, 20214493>>, <<2886407, 66509838>>, <<66310203, 25774827>>, <<48209469, 56475913>>, <<53706111, 5703071>>,
       <<10428621, 36663472>>, <<123518409, 61109638>>, <<70063768, 30534143>>, <<75387629, 52922684>>, <<113052796, 65194015>>,
       <<120304224, 50843070>>, <<73777002, 26818842>>, <<73014574, 544443>>, <<113690346, 33846866>>, <<50002179, 27850436>>,
       <<120848751, 9483827>>, <<3268502, 22511570>>, <<106853571, 4876308>>, <<70833150, 45483672>>, <<83536532, 18584239>>,
       <<132931488, 20913463>>, <<29510092, 20105867>>, <<54676918, 18782391>>, <<107322559, 34573032>>, <<100221954, 26420219>>,
       <<70360331, 5421287>>, <<104292105, 45609800>>, <<90900074, 3016059>>, <<116657637, 19231170>>, <<87265133, 64558147>>,
       <<48759281, 46466098>>, <<38492362, 23261591>>, <<11013794, 43902047>>, <<16551617, 55375133>>, <<5706617, 7705037>>,
       <<130946873, 54205636>>, <<18886040, 4296926>>, <<80909329, 10088241>>, <<17999419, 52786294>>, <<129680143, 33788744>>,
       <<71504804, 11249657>>, <<23763152, 36794717>>, <<110947143, 60216344>>, <<115442482, 23700848>>, <<131251878, 66107885>>,
       <<29979517, 55848805>>, <<54029237, 1308948>>, <<88687846, 9701569>>, <<37917237, 30741140>>, <<76411733, 30581483>>,
       <<94101250, 21889383>>, <<100870826, 11260084>>, <<110589784, 16891116>>, <<100786127, 693307>>, <<38307355, 29017718>>,
       <<101406994, 51255750>>, <<58208491, 13830774>>, <<22739051, 64053097>>, <<2780325, 62519763>>, <<83520203, 23823384>>,
       <<48043582, 19634432>>, <<12618010, 41139898>>, <<65774761, 24958303>>, <<55685880, 23866534>>, <<43654794, 2691763>>,
       <<76000204, 20308741>>, <<72315775, 58516605>>, <<71108273, 41740788>>, <<132507648, 37231144>>, <<121434844, 645284>>,
       <<40089162, 41848991>>, <<117036259, 37533354>>, <<42297457, 9349256>>, <<125762472, 56293521>>, <<7729439, 61615748>>,
       <<42686344, 16054593>>, <<125074242, 36599691>>, <<88776335, 52473413>>, <<94822517, 59951768>>, <<27438794, 59352056>>,
       <<16330125, 5864811>>, <<128806420, 64328549>>, <<8848796, 40911273>>, <<23543762, 49860344>>, <<57823652, 66682547>>,
       <<109952459, 66218920>>, <<91165329, 22848279>>, <<134005520, 17957298>>, <<104591665, 3021983>>, <<58687522, 14696116>>,
       <<122331574, 25085545>>, <<42497984, 22631778>>, <<6911920, 42372662>>, <<128768634, 66264910>>, <<118271069, 21151396>>,
       <<88621930, 46311835>>, <<64427005, 60494376>>, <<27350119, 57733044>>, <<29436584, 41679127>>, <<9053197, 55441101>>,
       <<12609025, 44880836>>, <<64302593, 33120067>>, <<120294972, 54213792>>, <<125124542, 11004981>>, <<69035987, 13583273>>,
       <<90398090, 60714157>>, <<62800652, 35826540>>, <<104178044, 26165912>>, <<94797674, 22562635>>, <<132185121, 12820945>>,
       <<113500522, 61719036>>, <<90990000, 9044824>>, <<79236794, 45801999>>, <<22639136, 35576307>>, <<63294686, 48131477>>,
       <<60082652, 66153723>>, <<20709574, 7694542>>, <<27067542, 43622629>>, <<55207212, 14315681>>, <<23597143, 17203668>>,
       <<83775170, 4737983>>, <<44026657, 31521203>>, <<132591537, 61959039>>, <<91818590, 30247798>>, <<69340025, 6079709>>,
       <<58237359, 43973099>>, <<52564710, 60945866>>, <<26896326, 11334141>>, <<129233401, 56731503>>, <<122622756, 38308000>>,
       <<87252968, 12022182>>, <<87254753, 38731872>>, <<19340588, 5647115>>, <<72678959, 47066696>>, <<22411486, 48538141>> >>,
    \* random.seed(13)
    <<
       <<34763531, 19512418>>, <<91973770, 61038205>>, <<91815920, 53821621>>, <<113995969, 59726738>>, <<24927476, 43755632>>,
       <<30945052, 44706956>>, <<19751469, 58333102>>, <<30220857, 43013907>>, <<98518980, 12574467>>, <<17476896, 4753110>>,
       <<71311858, 56760046>>, <<28710182, 49975445>>, <<39548160, 2011519>>, <<57925731, 8475626>>, <<112428353, 45913255>>,
       <<81658353, 66975099>>, <<1937082, 66637435>>, <<37022195, 55994392>>, <<19691126, 5700947>>, <<116941856, 53291810>>,
       <<108681410, 59616285>>, <<108185775, 17612744>>, <<110912878, 30270519>>, <<99958673, 29310812>>, <<127416032, 9362166>>,
       <<106538079, 58855463>>, <<34454761, 23873115>>, <<114076883, 15705342>>, <<65335242, 60279919>>, <<101334901, 36889922>>,
       <<75717400, 65862086>>, <<57656935, 45011816>>, <<48882448, 59634908>>, <<57689768, 42858716>>, <<42112337, 43973222>>,
       <<15751799, 23218273>>, <<110010707, 39907974>>, <<107140460, 42532574>>, <<132295889, 17642236>>, <<92734068, 30090102>>,
       <<74387002, 41016189>>, <<100450089, 66246814>>, <<18099765, 29553379>>, <<90841452, 48918942>>, <<59512134, 35968736>>,
       <<23707380, 19683539>>, <<27196086, 12040132>>, <<70154707, 23907430>>, <<33998928, 24904946>>, <<61667546, 17566569>>,
       <<81268670, 18799653>>, <<53117654, 59677727>>, <<17553123, 38735404>>, <<65881729, 36911652>>, <<31601160, 37940434>>,
       <<31632209, 59500140>>, <<26101180, 47079981>>, <<49182732, 8798064>>, <<9834908, 28882369>>, <<87406848, 42217243>>,
       <<127998889, 31115252>>, <<52303140, 146365>>, <<96486707, 28475320>>, <<125222162, 58217215>>, <<5799352, 15093105>>,
       <<19024767, 33422042>>, <<108192276, 46850750>>, <<112493968, 29871308>>, <<85772579, 17025472>>, <<21442183, 49200970>>,
       <<55497809, 49409260>>, <<116533404, 16862963>>, <<118942733, 51000022>>, <<107799937, 23527790>>, <<27254022, 47338140>>,
       <<114575529, 42312019>>, <<50298931, 34920307>>, <<96168490, 44081110>>, <<18388835, 60494563>>, <<130366120, 47237971>>,
       <<81000399, 15949037>>, <<97001073, 33309127>>, <<28415998, 57819047>>, <<82844617, 2856371>>, <<77963662, 47096664>>,
       <<79352874, 2593607>>, <<48231293, 39126160>>, <<97669378, 38244523>>, <<45813059, 12223948>>, <<39637860, 12943591>>,
       <<22076592, 52841617>>, <<91809123, 37265069>>, <<15067305, 60439445>>, <<30273803, 11229212>>, <<9280340, 28799443>>,
       <<86372705, 39937309>>, <<74645590, 54157449>>, <<72922584, 46651233>>, <<5211337, 65169865>>, <<59000851, 55388734>>,
       <<46044606, 43291388>>, <<12436873, 35338566>>, <<399236, 8488230>>, <<133937719, 20843117>>, <<16309627, 27383377>>,
       <<40467062, 60850036>>, <<36097095, 37919317>>, <<80162733, 46909628>>, <<10392113, 62975174>>, <<63067637, 35032067>>,
       <<49217338, 57152037>>, <<112005148, 2401499>>, <<767185, 21453659>>, <<44929756, 10406135>>, <<66647036, 37564878>>,
       <<130162649, 35753374>>, <<69348492, 55320786>>, <<63649042, 14968830>>, <<89859038, 13906708>>, <<39803083, 53607133>>,
       <<4260039, 25244189>>, <<67293640, 47930746>>, <<122192037, 10541326>>, <<99102795, 9822525>>, <<34670437, 28545489>>,
       <<91811321, 55310521>>, <<113966787, 14439915>>, <<34701659, 28511293>>, <<78921620, 15822075>>, <<47723088, 51869207>>,
       <<32783777, 39734521>>, <<38567990, 28715105>>, <<27359934, 42996933>>, <<47086173, 28549478>>, <<5114635, 21269080>>,
       <<53369605, 30915149>>, <<11644328, 4602188>>, <<101756684, 3060721>>, <<80505001, 61827433>>, <<549722, 43844924>>,
       <<103864573, 20560784>>, <<25558924, 30165753>>, <<64523080, 66538285>>, <<74440984, 26151233>>, <<44676550, 4113646>>,
       <<38847388, 35437314>>, <<58379507, 63857950>>, <<18386279, 9956762>>, <<115905716, 3529788>>, <<15023592, 24733510>>,
       <<110528826, 10486307>>, <<29296368, 20666512>>, <<40715388, 40482454>>, <<52122543, 19523952>>, <<4479476, 23326733>>,
       <<17216615, 6688104>>, <<48456085, 32943836>>, <<59306769, 39274583>>, <<117634146, 39143638>>, <<132855852, 29143009>>,
       <<5848603, 23558028>>, <<71813519, 19829349>>, <<17361858, 64934381>>, <<107866771, 3299974>>, <<43313941, 11182992>>,
       <<119842689, 59539036>>, <<73202732, 49637616>>, <<16862555, 60554843>>, <<662883, 60031287>>, <<33302327, 61226847>>,
       <<116508351, 45740523>>, <<20099028, 6018592>>, <<64280069, 62537298>>, <<49882354, 4722265>>, <<46301461, 17721264>>,
       <<107613782, 55131164>>, <<28689758, 3150809>>, <<96418612, 15958530>>, <<89467858, 55558857>>, <<125540005, 16020267>>,
       <<69779240, 52760313>>, <<123540144, 51236581>>, <<59127377, 13089506>>, <<76943669, 26379522>>, <<83295840, 3638924>>,
       <<112696669, 36715890>>, <<120470691, 3486050>>, <<15484654, 41159270>>, <<18409516, 63255320>>, <<71652213, 51002314>>,
       <<109041488, 24880478>>, <<71618025, 26612016>>, <<40199948, 9999543>>, <<129098502, 36606169>>, <<39977014, 17499897>>,
       <<11661456, 25009886>>, <<6990757, 62526118>>, <<4081005, 11209327>>, <<97567524, 1045742>>, <<14382011, 35172804>>,
       <<96118276, 18205218>>, <<116278472, 6102375>>, <<134167742, 22390634>>, <<108590653, 42103251>>, <<56955164, 10773609>>,
       <<83501180, 65712302>>, <<111825117, 45249060>>, <<96102576, 47031699>>, <<38980986, 61628876>>, <<102274818, 2737154>>,
       <<14685312, 6353247>>, <<41400801, 27229993>>, <<133699768, 26017400>>, <<63247175, 26178741>>, <<35938288, 10123364>>,
       <<105337677, 10032522>>, <<60422861, 20194655>>, <<492843, 35321709>>, <<3927849, 35715764>>, <<34765592, 18539057>>,
       <<44553906, 15191055>>, <<125796322, 66584715>>, <<33192259, 64020826>>, <<114097046, 63915038>>, <<114558703, 25164730>>,
       <<55854014, 10507940>>, <<133311025, 56102351>>, <<102252566, 53749665>>, <<64967764, 27459824>>, <<35091669, 10406647>>,
       <<61884243, 38802743>>, <<121070878, 64292525>>, <<72033073, 31082286>>, <<26025595, 51423314>>, <<50408243, 47922423>>,
       <<63901676, 55794203>>, <<25597796, 1949958>>, <<76898191, 60781604>>, <<4589193, 32342034>>, <<110224050, 33607350>>,
       <<23986793, 8407178>>, <<13808023, 369596>>, <<79036802, 8920347>>, <<41241693, 5413461>>, <<118806598, 60641198>>,
       <<66697311, 38331162>>, <<69979502, 48632320>>, <<112007693, 3717903>>, <<28762940, 47338834>>, <<100038752, 61144583>>,
       <<87112548, 46392622>>, <<57504298, 1813072>>, <<128759497, 35677392>>, <<2956621, 52136206>>, <<115732467, 45711218>>,
       <<19248563, 20008913>>, <<112707394, 41569380>>, <<20635132, 43643796>>, <<7191752, 49122036>>, <<67200635, 28719974>>,
       <<124266035, 50388290>>, <<34549038, 15147579>>, <<65294422, 1443769>>, <<81610410, 6304118>>, <<32704521, 21228208>>,
       <<71183227, 33822772>>, <<1287203, 38340319>>, <<60315709, 59861466>>, <<101974631, 60869934>>, <<45624065, 43818638>>,
       <<29587402, 40810752>>, <<6821839, 35206561>>, <<94033007, 66609396>>, <<57336131, 15798881>>, <<122683769, 34227150>>,
       <<99394180, 853928>>, <<13474323, 24762101>>, <<122696797, 9956442>>, <<125072781, 31325182>>, <<109654374, 23653439>>,
       <<111574558, 8946741>>, <<91449950, 23137892>>, <<96749185, 15206964>>, <<89548170, 19025827>>, <<79283709, 6231914>>,
       <<34520508, 47838672>>, <<17921895, 8412598>>, <<97469198, 11973633>>, <<80064299, 7012250>>, <<7577699, 36692783>>,
       <<86127352, 9509582>>, <<81880393, 49347999>>, <<68659875, 1748092>>, <<104022660, 31001052>>, <<117619643, 23911258>>,
       <<51151091, 38793125>>, <<109349770, 38322821>>, <<67010157, 54014036>>, <<76759042, 34443932>>, <<55548653, 4523020>>,
       <<125225931, 57654406>>, <<59653611, 35384001>>, <<127828722, 18822607>>, <<45399902, 25471954>>, <<90236488, 8360885>>,
       <<122494182, 13802586>>, <<91756390, 21968891>>, <<50372353, 38920151>>, <<10432123, 51388298>>, <<64206380, 62523640>>,
       <<55606148, 20142159>>, <<109260155, 62282950>>, <<105274346, 1761186>>, <<132360618, 47854143>>, <<60091518, 26141424>>,
       <<55097803, 32310099>>, <<75723597, 60025148>>, <<100625247, 4089698>>, <<10727099, 16805478>>, <<28922704, 216544>>,
       <<19568607, 35727531>>, <<43568743, 66456881>>, <<40251457, 56380517>>, <<129957872, 35629224>>, <<27882810, 28954335>>,
       <<125289891, 37683174>>, <<39540485, 757357>>, <<27359087, 42207637>>, <<130774399, 58806739>>, <<11959956, 50306768>>,
       <<15149712, 44028372>>, <<17259698, 64149479>>, <<8981158, 37216298>>, <<51895047, 42139884>>, <<28505871, 21031269>>,
       <<21354670, 66547255>>, <<2104133, 10737195>>, <<93715162, 12429981>>, <<6614559, 3728996>>, <<31061381, 29357559>>,
       <<75893009, 66123768>>, <<118581461, 11957937>>, <<88509183, 51661506>>, <<95135722, 27475483>>, <<94026616, 5414774>>,
       <<106991544, 32675895>>, <<114494188, 34444538>>, <<20807829, 7471567>>, <<7252197, 23399162>>, <<83338868, 3477152>>,
       <<69634911, 55046113>>, <<69924710, 52252912>>, <<104938887, 50326961>>, <<23385426, 6142401>>, <<94770572, 52035784>>,
       <<57241039, 20458133>>, <<56589578, 19960598>>, <<32842799, 17597888>>, <<37791458, 54090680>>, <<77705646, 48004241>>,
       <<74353899, 28030865>>, <<121701840, 18986822>>, <<37604876, 49876263>>, <<96049952, 14212159>>, <<13014836, 56326689>>,
       <<87509165, 5669068>>, <<21566278, 3156480>>, <<115105665, 8012011>>, <<129550603, 50503926>>, <<34144264, 10036892>>,
       <<108475978, 66897489>>, <<29479074, 41913109>>, <<40989602, 6722942>>, <<13852189, 33087087>>, <<59259295, 40182795>>,
       <<14004223, 3080800>>, <<94540952, 60079810>>, <<77243378, 36578816>>, <<56384882, 9181939>>, <<95279577, 32052002>>,
       <<31319054, 32088051>>, <<44518210, 56449795>>, <<48794061, 8381651>>, <<272939, 47814923>>, <<119035169, 32880657>>,
       <<11844055, 46731592>>, <<13573253, 51632284>>, <<107086675, 57421544>>, <<109845508, 18041001>>, <<60064648, 1027325>>,
       <<56558506, 61761870>>, <<18685714, 47391108>>, <<163205, 42418357>>, <<69858963, 9414024>>, <<32723208, 23343111>>,
       <<20270796, 28761039>>, <<121554905, 29279175>>, <<2586673, 23950212>>, <<48627265, 22042241>>, <<100873401, 23419472>>,
       <<100224661, 12945088>>, <<14353364, 9929555>>, <<99605067, 10733625>>, <<75622830, 11364305>>, <<84552129, 28677022>>,
       <<126610968, 3805172>>, <<107191024, 64212072>>, <<80436233, 29007747>>, <<103331112, 8266996>>, <<66011041, 27531548>>,
       <<74041955, 13982295>>, <<109713598, 10346839>>, <<83140534, 63740096>>, <<50530205, 53665618>>, <<2736411, 26716451>>,
       <<105986456, 26425883>>, <<45658763, 61188077>>, <<57584229, 26856856>>, <<38592522, 5394623>>, <<74537699, 16264033>>,
       <<53815055, 11306494>>, <<111939073, 64206985>>, <<79740562, 50404262>>, <<74942989, 3303204>>, <<105094265, 30961266>>,
       <<59117574, 6909555>>, <<71995036, 57202970>>, <<100707013, 34386667>>, <<96973650, 30356037>>, <<99810785, 9592867>>,
       <<119574719, 52293907>>, <<74894264, 2912133>>, <<74513900, 48500676>>, <<25289998, 1804149>>, <<32373374, 65238050>>,
       <<58317693, 3001070>>, <<66948451, 18316246>>, <<120699258, 28493560>>, <<5720746, 51995818>>, <<46926878, 12796273>>,
       <<99340930, 60949698>>, <<61600401, 26862337>>, <<113867963, 41329689>>, <<21452486, 29514887>>, <<103493966, 13826487>>,
       <<57880921, 50604290>>, <<76174700, 26392115>>, <<7643892, 26223779>>, <<54069596, 14881523>>, <<107751797, 44446255>>,
       <<98671157, 12837758>>, <<75698134, 58997007>>, <<56765279, 13731670>>, <<5235179, 2487211>>, <<93844094, 1115049>>,
       <<59908925, 35211850>>, <<97181591, 45983273>>, <<82136278, 26381254>>, <<53966799, 61468496>>, <<117384765, 33858857>>,
       <<17734633, 58084519>>, <<128724062, 30423048>>, <<11548614, 33039245>>, <<130076917, 32857229>>, <<78763438, 42199464>>,
       <<60094871, 5461202>>, <<125599869, 35883008>>, <<68757009, 46270271>>, <<68239831, 893590>>, <<8041475, 47709222>>,
       <<107056782, 32828340>>, <<85792804, 11890084>>, <<32159076, 48556831>>, <<15257340, 1837065>>, <<56379801, 47098211>>,
       <<125518511, 37589734>>, <<116842384, 13658374>>, <<62471659, 32227776>>, <<4802999, 27818362>>, <<111258659, 2796856>>,
       <<27131271, 18592990>>, <<98104295, 53801243>>, <<67031601, 35295604>>, <<129341284, 9963248>>, <<19816681, 10415321>>,
       <<106526830, 55308870>>, <<96671173, 65297097>>, <<2315296, 11918767>>, <<75884220, 4475856>>, <<39570352, 11333635>>,
       <<93325716, 31942269>>, <<129029511, 13025579>>, <<89404749, 66662234>>, <<66304617, 130833>>, <<81033884, 48127507>>,
       <<33365592, 4557196>>, <<62765525, 52388158>>, <<15627735, 4334591>>, <<96718221, 39940452>>, <<8824679, 26017249>>,
       <<70731029, 46790156>>, <<24096572, 12885494>>, <<75588473, 61386785>>, <<7594585, 49125127>>, <<3684604, 25624240>>,
       <<83870858, 13783259>>, <<96567520, 67043867>>, <<119220795, 30260242>>, <<90903502, 53977409>>, <<133636343, 22040712>>,
       <<19152569, 30073135>>, <<84402271, 40280235>>, <<85402574, 51494066>>, <<23537330, 59235252>>, <<18772048, 56317807>>,
       <<32271980, 38884811>>, <<70240896, 62933875>>, <<105653243, 47129358>>, <<95427659, 53133319>>, <<76753845, 46820590>>,
       <<10402872, 33812589>>, <<96885637, 28834324>>, <<68773020, 54514686>>, <<22761202, 26816333>>, <<82979584, 27761757>>,
       <<32970031, 52216303>>, <<41449237, 19239319>>, <<60569719, 51773349>>, <<100832892, 436062>>, <<14339374, 51287788>>,
       <<59381885, 30698063>>, <<31558162, 47853407>>, <<90060412, 54093578>>, <<109493061, 12440567>>, <<35450370, 1365694>>,
       <<96604107, 51704581>>, <<62275785, 64341908>>, <<29211282, 37587373>>, <<36993332, 40642718>>, <<72204739, 61163249>>,
       <<108285035, 47329296>>, <<80775001, 60270970>>, <<71594, 44437607>>, <<104883877, 61776957>>, <<77869593, 8573924>>,
       <<56713872, 22153185>>, <<32361326, 65999983>>, <<59164804, 1206193>>, <<92889112, 26825881>>, <<36388751, 6735602>>,
       <<18575233, 2385110>>, <<117943859, 22028610>>, <<59336245, 1900236>>, <<9477110, 56735997>>, <<119557423, 5072537>>,
       <<14689182, 62892139>>, <<48969876, 5697856>>, <<83094718, 51337133>>, <<89157933, 51718841>>, <<120659563, 66569720>>,
       <<23617015, 50084410>>, <<76427974, 32613625>>, <<118027627, 38361896>>, <<62741297, 38609085>>, <<95912840, 47354>>,
       <<62620752, 34330820>>, <<96158869, 1212295>>, <<128578940, 41511435>>, <<45609505, 37113102>>, <<98926709, 64613463>>,
       <<46287995, 5332254>>, <<119134895, 27279284>>, <<102542111, 27460272>>, <<115132800, 60095614>>, <<117281401, 5518875>>,
       <<79903691, 14051884>>, <<127568640, 22881677>>, <<20866393, 7960480>>, <<77020818, 10367833>>, <<9974451, 26048351>>,
       <<78272438, 19614813>>, <<92217743, 33282110>>, <<38278345, 49957943>>, <<108992340, 44860371>>, <<56019170, 54750836>>,
       <<26498404, 33344488>>, <<25952678, 6941090>>, <<77588086, 35986802>>, <<51569385, 20263523>>, <<6284693, 5215574>>,
       <<41044183, 30279060>>, <<130807081, 13249535>>, <<63398785, 539862>>, <<91691145, 3176535>>, <<57237922, 34917789>>,
       <<9546343, 31769821>>, <<82161892, 20519537>>, <<28202318, 43035999>>, <<16393778, 40405534>>, <<82818201, 46279660>> >>,
    \* random.seed(14)
    <<
       <<14338283, 41330911>>, <<94299432, 50680966>>, <<87515598, 35373880>>, <<126211961, 16571544>>, <<36388469, 49333862>>,
       <<34329608, 19529753>>, <<98523780, 4873839>>, <<88375665, 30181643>>, <<40666357, 31314227>>, <<91836215, 58574091>>,
       <<53240635, 26428116>>, <<104356509, 60996803>>, <<15891321, 17684288>>, <<29966270, 58439330>>, <<120992327, 21183454>>,
       <<48054332, 54213949>>, <<34950609, 24204161>>, <<107948806, 42461685>>, <<84780496, 34646206>>, <<20092871, 10807915>>,
       <<73998618, 44656389>>, <<89120444, 18477084>>, <<22138979, 711709>>, <<87469464, 4693378>>, <<16512316, 39917994>>,
       <<45240263, 1864786>>, <<11167989, 18391496>>, <<27437015, 57316276>>, <<131264875, 25627518>>, <<54180448, 39143614>>,
       <<132933617, 62700205>>, <<58874344, 60157151>>, <<81541459, 6334699>>, <<117117769, 43007602>>, <<92191942, 59468848>>,
       <<14969498, 38841297>>, <<79065538, 42776338>>, <<85057716, 24444916>>, <<24319988, 58038925>>, <<12706727, 50130572>>,
       <<117412852, 32657037>>, <<68958579, 45113920>>, <<26016591, 18175146>>, <<60747065, 41883793>>, <<29284684, 32530273>>,
       <<107138214, 18879420>>, <<67173305, 17087284>>, <<13747657, 8132563>>, <<109807282, 67057186>>, <<12017216, 18698649>>,
       <<37670723, 7937608>>, <<3757748, 10852549>>, <<99366919, 27640063>>, <<15283992, 46049948>>, <<70566924, 39322011>>,
       <<12480060, 28533929>>, <<64483219, 65348853>>, <<91989090, 11299307>>, <<71786415, 25950209>>, <<61091467, 20771845>>,
       <<65078275, 30858402>>, <<58658862, 28030946>>, <<79919490, 55478028>>, <<12731119, 17205267>>, <<63688749, 26446113>>,
       <<31710727, 30147669>>, <<116159152, 41296570>>, <<126033160, 32820073>>, <<8918607, 38191115>>, <<19232991, 32819872>>,
       <<94418262, 17903633>>, <<76698342, 29622192>>, <<2564363, 55388336>>, <<94609225, 27225175>>, <<126692449, 66252611>>,
       <<56788910, 1395539>>, <<46639387, 47628792>>, <<76423781, 24692800>>, <<126048693, 31611216>>, <<35371551, 23864021>>,
       <<40572031, 35572855>>, <<25328306, 2871958>>, <<84344774, 37573101>>, <<62982686, 53533191>>, <<34369624, 6399506>>,
       <<52062310, 6565282>>, <<4667934, 12911090>>, <<41936176, 1690121>>, <<131923380, 24457>>, <<78657470, 34001914>>,
       <<37927772, 35002137>>, <<125645255, 53996750>>, <<48086954, 66423984>>, <<33760414, 7636785>>, <<4716374, 64186018>>,
       <<19622783, 52006153>>, <<26714575, 119550>>, <<30874818, 16796370>>, <<117169521, 33599198>>, <<35506815, 12240769>>,
       <<33366611, 13948715>>, <<81057643, 45642404>>, <<123096314, 22281699>>, <<39107667, 48413294>>, <<102218629, 60099276>>,
       <<49490889, 2115935>>, <<75311362, 61850001>>, <<79972032, 49745162>>, <<126474884, 52823886>>, <<101637495, 10619683>>,
       <<68202855, 43257373>>, <<112930422, 13242517>>, <<49186760, 32899553>>, <<51554397, 16432956>>, <<128845792, 26041464>>,
       <<73275096, 37154546>>, <<103809436, 61061822>>, <<42204569, 32746605>>, <<122848260, 63910937>>, <<82239754, 2117516>>,
       <<33193346, 43161933>>, <<125310668, 28817053>>, <<62937859, 51912289>>, <<45557975, 6014163>>, <<35266059, 54166951>>,
       <<13857458, 8717422>>, <<26929829, 3661490>>, <<92911245, 62310135>>, <<18876453, 14197550>>, <<34724205, 32683901>>,
       <<60046150, 8434084>>, <<73107107, 60192755>>, <<51070646, 3408619>>, <<105373624, 7138145>>, <<34464582, 47237431>>,
       <<49472657, 36324368>>, <<57043358, 28098638>>, <<17296599, 29853919>>, <<29838454, 6048024>>, <<19660953, 54260009>>,
       <<97361182, 11536005>>, <<19670914, 1152340>>, <<89667380, 60949424>>, <<29801310, 65860884>>, <<86832362, 57720955>>,
       <<88117999, 55027991>>, <<47442764, 66751467>>, <<125237890, 39960112>>, <<88152840, 55250930>>, <<74798533, 47191757>>,
       <<6212860, 38781280>>, <<54563632, 31433026>>, <<35710680, 64371859>>, <<63063351, 21658063>>, <<125269433, 5148098>>,
       <<115958475, 24527254>>, <<8308769, 66748385>>, <<91284925, 43060449>>, <<125386459, 43482907>>, <<72805266, 55241774>>,
       <<12985911, 61777206>>, <<116337419, 4603603>>, <<57222382, 56346877>>, <<131607117, 7730695>>, <<117368967, 3453722>>,
       <<111249949, 43311737>>, <<124987692, 11466372>>, <<9143586, 1593>>, <<106538858, 45416159>>, <<40960940, 3010948>>,
       <<18143865, 66038732>>, <<50887569, 59477333>>, <<79041659, 10057362>>, <<654048, 59302880>>, <<60351156, 31454271>>,
       <<105261817, 58012510>>, <<66476949, 48203530>>, <<70886920, 1337244>>, <<39768087, 5453421>>, <<130383035, 18216164>>,
       <<33309183, 18916893>>, <<91422712, 39819630>>, <<86682894, 34097211>>, <<77337, 36802397>>, <<133747438, 53446120>>,
       <<31603121, 48646631>>, <<132719657, 519782>>, <<124594587, 24043842>>, <<120925962, 7488581>>, <<114790515, 8282898>>,
       <<53385318, 25670698>>, <<59782480, 19687896>>, <<46405488, 48621679>>, <<125627577, 22378100>>, <<3927008, 16934031>>,
       <<18368714, 18924492>>, <<128367167, 38022631>>, <<108241167, 51577955>>, <<94763222, 20862120>>, <<129908419, 14512711>>,
       <<70279971, 39205663>>, <<112107457, 60321518>>, <<59440339, 1713735>>, <<120889333, 43357512>>, <<9348387, 67047934>>,
       <<58830355, 22810618>>, <<77445643, 25810872>>, <<106613927, 40367991>>, <<56707831, 16784071>>, <<91347904, 51230326>>,
       <<129895931, 65512354>>, <<56216424, 65195381>>, <<26782663, 52485440>>, <<4064421, 25273683>>, <<115669801, 48016915>>,
       <<63892360, 16406155>>, <<52075719, 54628386>>, <<69748844, 65366492>>, <<16171132, 51016049>>, <<29803713, 55545873>>,
       <<31646202, 13095333>>, <<34239667, 57032835>>, <<115372029, 5031441>>, <<33100611, 53107160>>, <<12143166, 30427220>>,
       <<116328469, 44420820>>, <<74928329, 3372101>>, <<3758136, 12730252>>, <<90621496, 54497280>>, <<92105305, 40520091>>,
       <<87188195, 18995423>>, <<103963589, 66751160>>, <<56898933, 30841844>>, <<30183463, 60356635>>, <<99893545, 4583403>>,
       <<83894870, 4992128>>, <<94456793, 48190680>>, <<24648964, 48187477>>, <<50022225, 30929782>>, <<92762588, 13591817>>,
       <<51616098, 7200021>>, <<80861114, 24415804>>, <<63481049, 14633671>>, <<101275970, 45733218>>, <<46758506, 22413024>>,
       <<66826211, 35849741>>, <<111198675, 65776463>>, <<41690932, 3343022>>, <<23586658, 40918623>>, <<85444478, 30932474>>,
       <<17866872, 60528575>>, <<115026432, 55019318>>, <<36905176, 31907065>>, <<121351741, 20461103>>, <<71642166, 3198937>>,
       <<20690432, 3733102>>, <<69930812, 2045512>>, <<91605939, 20584720>>, <<65248442, 24495463>>, <<85247671, 19852933>>,
       <<49526406, 45017484>>, <<128740730, 49611463>>, <<23414599, 8817408>>, <<107070269, 67042428>>, <<3185657, 14050996>>,
       <<68070010, 51661674>>, <<8923450, 66911562>>, <<17683186, 58786182>>, <<78986318, 15308430>>, <<121377431, 57977365>>,
       <<41509821, 56968259>>, <<54059107, 39659268>>, <<63891092, 55256511>>, <<81209760, 54510429>>, <<47017716, 11910703>>,
       <<47166983, 16547579>>, <<114550039, 57927578>>, <<74575081, 42608720>>, <<47307252, 22502729>>, <<109800526, 35024828>>,
       <<134085985, 65666881>>, <<58010246, 7407957>>, <<2041710, 2694502>>, <<40978283, 58437886>>, <<120541199, 18276608>>,
       <<23064672, 20168254>>, <<26670607, 54198319>>, <<106346145, 13388290>>, <<15343852, 34371309>>, <<114011148, 49583328>>,
       <<30367128, 62575196>>, <<52063434, 18877551>>, <<79776362, 29639296>>, <<15048428, 25902019>>, <<104017024, 7569998>>,
       <<58848423, 66358757>>, <<103384344, 40515439>>, <<102548851, 54381309>>, <<10306023, 47296161>>, <<110397684, 36595552>>,
       <<110170477, 62717152>>, <<32444586, 3975300>>, <<79363441, 36462907>>, <<27585274, 36400291>>, <<72278482, 65863488>>,
       <<100910227, 39459571>>, <<50579689, 13075328>>, <<71535183, 5409873>>, <<17638600, 24403565>>, <<115847241, 66172894>>,
       <<84071912, 32010139>>, <<111453750, 7981013>>, <<10832298, 51682101>>, <<100039187, 63866595>>, <<12138763, 58519384>>,
       <<74691087, 39044998>>, <<30971301, 15158228>>, <<121003299, 63751983>>, <<14258155, 8962885>>, <<63483834, 37265877>>,
       <<63198510, 21271348>>, <<51795558, 34321896>>, <<8665170, 43159694>>, <<89401789, 59588617>>, <<130461228, 58951822>>,
       <<48447606, 8188718>>, <<120634814, 33911700>>, <<45469651, 56908178>>, <<36665913, 11091602>>, <<61034517, 32474941>>,
       <<130567849, 48168965>>, <<104613417, 6629433>>, <<84901732, 23788696>>, <<5320551, 35950566>>, <<60580507, 21343563>>,
       <<1995913, 50408033>>, <<8324398, 35904618>>, <<50515004, 13612655>>, <<32750588, 36250518>>, <<13962017, 23716195>>,
       <<68675908, 47155201>>, <<105009637, 62688141>>, <<124246534, 11104888>>, <<122949519, 18873547>>, <<57188099, 3344948>>,
       <<23943146, 50487495>>, <<129338616, 4472117>>, <<56815363, 42076678>>, <<46037353, 32314651>>, <<110616876, 12708545>>,
       <<74904209, 59028172>>, <<127830008, 59183410>>, <<94111675, 59664948>>, <<126961106, 29231270>>, <<20556730, 51346870>>,
       <<126602855, 37466098>>, <<72693444, 50682408>>, <<93495875, 28304011>>, <<40391938, 47968307>>, <<32766107, 54073956>>,
       <<39820558, 14530892>>, <<22814824, 46729695>>, <<128936246, 43870336>>, <<16021954, 17078146>>, <<32574780, 34343106>>,
       <<85027569, 4011347>>, <<27460937, 9628856>>, <<28679213, 26349945>>, <<33953793, 7566324>>, <<31421074, 15353178>>,
       <<1373083, 13204940>>, <<99321738, 45176386>>, <<88476413, 51874596>>, <<41628737, 2315752>>, <<120690331, 18508764>>,
       <<75075003, 16173808>>, <<29529341, 22372399>>, <<129525703, 9056172>>, <<30829328, 3485599>>, <<108658613, 18494257>>,
       <<109594109, 12129046>>, <<390524, 36870579>>, <<113690767, 54980125>>, <<56462241, 42600036>>, <<67405616, 18357497>>,
       <<126950042, 32736189>>, <<60615050, 51475158>>, <<32433952, 50075637>>, <<6643632, 33202276>>, <<118846993, 10136641>>,
       <<61056554, 14091806>>, <<95451212, 49034519>>, <<86020450, 17461330>>, <<131526200, 64054782>>, <<125654949, 65232556>>,
       <<125602113, 13425028>>, <<67712188, 39142929>>, <<122178093, 44026080>>, <<41148977, 61887592>>, <<16671444, 33130360>>,
       <<85819393, 27236829>>, <<3828030, 32077863>>, <<130502873, 35695425>>, <<43607482, 66295033>>, <<56928819, 21398850>>,
       <<39033712, 36316289>>, <<43343869, 56137169>>, <<72140723, 4657402>>, <<107516422, 43994457>>, <<1931406, 66197287>>,
       <<46054644, 4263233>>, <<33095796, 10815811>>, <<128653076, 12672203>>, <<58911483, 16871067>>, <<59629445, 33219623>>,
       <<125796468, 47677577>>, <<51943759, 51077985>>, <<51608427, 233604>>, <<53588239, 38297410>>, <<31769578, 57163473>>,
       <<94481254, 5195094>>, <<38509464, 6281581>>, <<68373171, 40423042>>, <<76719115, 13903901>>, <<102902327, 44144422>>,
       <<99323457, 34897953>>, <<64588460, 63822356>>, <<127485853, 53917595>>, <<126931032, 59632709>>, <<125870679, 28269600>>,
       <<95856026, 54126978>>, <<60978545, 22175232>>, <<48304592, 25667987>>, <<115464723, 38076533>>, <<63569118, 47369407>>,
       <<100410597, 17803883>>, <<52020188, 18835348>>, <<49041068, 12428561>>, <<2413728, 8512604>>, <<98001231, 66042559>>,
       <<38899179, 8178799>>, <<66309539, 54720705>>, <<97406990, 62287320>>, <<111660437, 43561299>>, <<126797472, 32664146>>,
       <<89054344, 3697480>>, <<31256379, 31605930>>, <<124668956, 1516299>>, <<7299553, 9284163>>, <<55367869, 43003401>>,
       <<124154832, 50925983>>, <<113465832, 11720855>>, <<79810598, 13440506>>, <<116553725, 46427678>>, <<23766403, 25830263>>,
       <<5277535, 14111892>>, <<39829684, 8584535>>, <<124863875, 56021763>>, <<5338521, 22018045>>, <<43675140, 4299167>>,
       <<68197313, 64873579>>, <<27636415, 61932115>>, <<116942279, 1233919>>, <<14324164, 48756858>>, <<11467958, 37407363>>,
       <<133878089, 51757735>>, <<1634140, 50845345>>, <<29878026, 37651132>>, <<54808679, 9970283>>, <<118151349, 3451857>>,
       <<45049640, 22437959>>, <<76541145, 40744706>>, <<107982953, 28121587>>, <<82985637, 27833276>>, <<111526815, 41051353>>,
       <<2191885, 41971457>>, <<72673474, 32221791>>, <<2805916, 60509116>>, <<114428848, 3517376>>, <<3405063, 64669279>>,
       <<12698074, 47837580>>, <<57593634, 12906475>>, <<83337052, 40026061>>, <<1870463, 54059011>>, <<85885318, 8425767>>,
       <<13799145, 20186588>>, <<43414953, 1330596>>, <<5631603, 36510526>>, <<97577809, 12895267>>, <<111568047, 31360320>>,
       <<103327687, 44269867>>, <<43252637, 12390891>>, <<33530951, 19021940>>, <<129178011, 18330988>>, <<109611341, 63390975>>,
       <<130001414, 31855652>>, <<55691432, 12995868>>, <<118075638, 32626407>>, <<90932352, 50181185>>, <<105459649, 14485508>>,
       <<68741555, 12465266>>, <<105244324, 41610439>>, <<66929381, 15707503>>, <<36624697, 66147598>>, <<64106677, 10768630>>,
       <<5506532, 5459885>>, <<90413308, 26136421>>, <<44938454, 33211957>>, <<24239438, 12179318>>, <<106404726, 39354005>>,
       <<70583083, 28945370>>, <<42438070, 43523084>>, <<123878192, 60317853>>, <<125853257, 19041106>>, <<57048321, 52085440>>,
       <<73391784, 23068372>>, <<28853, 3370505>>, <<47868698, 2621106>>, <<132552008, 35692865>>, <<68492058, 52903053>>,
       <<133385242, 16568525>>, <<3859852, 36746513>>, <<2316555, 61481156>>, <<8263429, 22095009>>, <<10107044, 35570799>>,
       <<101344935, 53473558>>, <<132627009, 10920606>>, <<102180584, 22517845>>, <<81201459, 32582176>>, <<51174203, 49337418>>,
       <<51244991, 38455080>>, <<17512645, 22154196>>, <<53292472, 12851093>>, <<16329652, 8837571>>, <<108686709, 66406550>>,
       <<72252723, 60139630>>, <<50677203, 26827416>>, <<114328848, 13190751>>, <<40281571, 8268316>>, <<117062600, 60664866>>,
       <<96309127, 23859748>>, <<84275689, 4482512>>, <<79819982, 20750818>>, <<84941311, 33768771>>, <<121159710, 18012633>>,
       <<133611951, 44985176>>, <<74986191, 19210526>>, <<128930714, 29939964>>, <<32876834, 2877510>>, <<124351171, 49769916>>,
       <<118559880, 40506840>>, <<85448237, 29902987>>, <<14775979, 26184536>>, <<119149893, 7817934>>, <<50838905, 26146747>>,
       <<44716451, 7947335>>, <<127694841, 22359084>>, <<11767464, 19730901>>, <<86559751, 50177754>>, <<30389182, 20847568>>,
       <<116687257, 55264844>>, <<29026224, 55850720>>, <<14271020, 21571146>>, <<65347818, 47269488>>, <<61382385, 61837147>>,
       <<100947796, 3777453>>, <<37693000, 37205183>>, <<39177545, 37071612>>, <<39435071, 63540280>>, <<73868418, 61718458>>,
       <<17690716, 22942851>>, <<75303482, 64290236>>, <<110111735, 62044333>>, <<92297187, 20599404>>, <<34366649, 45171341>>,
       <<64464455, 5934183>>, <<12632514, 30130019>>, <<63285532, 64504296>>, <<102060992, 18240342>>, <<98188, 20104270>>,
       <<86837595, 63097358>>, <<123651924, 25570114>>, <<37521798, 57736879>>, <<42758409, 47993502>>, <<91423029, 9500572>>,
       <<20882850, 5743707>>, <<36139794, 40036281>>, <<82866813, 59504690>>, <<69553633, 58572310>>, <<22480580, 62487238>>,
       <<26618388, 50510579>>, <<65904828, 40455148>>, <<116420250, 63087314>>, <<26928538, 47699118>>, <<91904998, 54397496>>,
       <<71319168, 26911542>>, <<37311981, 26039926>>, <<55469872, 20985066>>, <<110261130, 6673900>>, <<13752556, 62789083>> >>,
    \* random.seed(15)
    <<
       <<129552607, 14024433>>, <<1564266, 34984984>>, <<98783123, 2427760>>, <<21208108, 61271321>>, <<132384240, 16035661>>,
       <<2265683, 3687512>>, <<118043319, 54014204>>, <<91449338, 9881669>>, <<115070546, 46625713>>, <<134193063, 24648584>>,
       <<32174027, 7860450>>, <<45376028, 31294861>>, <<95052234, 23873260>>, <<37659036, 26325173>>, <<35341441, 23108262>>,
       <<30683477, 62749173>>, <<115136946, 13849043>>, <<117377779, 23834918>>, <<107054206, 21029958>>, <<29983060, 20511051>>,
       <<124129692, 48762865>>, <<68634912, 28217081>>, <<31056085, 38731850>>, <<61141115, 56416887>>, <<56354712, 32857934>>,
       <<10597736, 30944357>>, <<75791621, 53622607>>, <<48313610, 29481088>>, <<76452526, 21149701>>, <<124851661, 46575281>>,
       <<86647106, 30238465>>, <<54371658, 52136123>>, <<115906938, 54333029>>, <<133569847, 4418380>>, <<65801116, 64371559>>,
       <<126839082, 56291873>>, <<2516589, 13133915>>, <<18833179, 35831938>>, <<23111555, 41208088>>, <<125904924, 52678714>>,
       <<92675321, 56646236>>, <<96513598, 1166434>>, <<38469101, 35566735>>, <<66435772, 10179723>>, <<119059812, 57415603>>,
       <<13405081, 59849896>>, <<15599022, 26533057>>, <<6364090, 4938431>>, <<62902693, 48691176>>, <<112807610, 61841105>>,
       <<74489561, 19852245>>, <<53882957, 61916923>>, <<67384890, 15593986>>, <<24053355, 36486619>>, <<127256251, 33559214>>,
       <<47486421, 5255293>>, <<31576054, 20811523>>, <<41772983, 11042462>>, <<110720594, 42020549>>, <<42717149, 25963862>>,
       <<121441074, 31980495>>, <<45120971, 58396616>>, <<59263636, 52467661>>, <<9959083, 50817032>>, <<121798726, 56216293>>,
       <<106857640, 18283640>>, <<63679172, 9539502>>, <<15488802, 45391863>>, <<66099953, 26158164>>, <<50485770, 1033396>>,
       <<112743255, 17450043>>, <<124551789, 64944548>>, <<99469587, 6196957>>, <<38548962, 4309095>>, <<5553773, 30244337>>,
       <<119982596, 3987005>>, <<126768576, 17116505>>, <<21256718, 55216317>>, <<67098987, 37917580>>, <<64554803, 58551886>>,
       <<131054047, 33450017>>, <<5777918, 33575195>>, <<8282110, 31840706>>, <<113246006, 5484315>>, <<76447860, 64443739>>,
       <<62047364, 15554211>>, <<104387693, 50673816>>, <<79636809, 30139849>>, <<92936033, 48379685>>, <<34309411, 45517206>>,
       <<11399152, 40990328>>, <<1197919, 3785573>>, <<44708662, 50580451>>, <<87040205, 56055211>>, <<50974399, 29099984>>,
       <<46617570, 3755692>>, <<83021012, 62752068>>, <<94650460, 20289102>>, <<79920536, 29905940>>, <<41840804, 36806886>>,
       <<110292408, 2073027>>, <<107468669, 28924177>>, <<119923217, 58331524>>, <<119799960, 25844527>>, <<2018355, 59968579>>,
       <<89813742, 61379402>>, <<46719240, 41369578>>, <<52136214, 60984505>>, <<69536699, 189185>>, <<19311992, 16844474>>,
       <<33478308, 33488304>>, <<132373471, 34398217>>, <<44426604, 21802089>>, <<122541296, 16363386>>, <<91859969, 39385989>>,
       <<42253927, 33012875>>, <<42775672, 170685>>, <<81183009, 23848092>>, <<94231498, 15106572>>, <<45638824, 62115531>>,
       <<7926903, 57396422>>, <<23115260, 43044489>>, <<115517789, 33927075>>, <<97825995, 63493571>>, <<14531946, 66248162>>,
       <<112087050, 48571570>>, <<77291048, 26784894>>, <<44937281, 58689590>>, <<119984405, 57550629>>, <<17281220, 22524427>>,
       <<13180361, 21149349>>, <<46117879, 30762769>>, <<99017024, 41184533>>, <<73519433, 41437669>>, <<64989745, 38382028>>,
       <<121701367, 8154775>>, <<52872882, 62252341>>, <<105781744, 38996119>>, <<614741, 6727187>>, <<105085213, 56838289>>,
       <<20868027, 47535757>>, <<88004796, 30999584>>, <<112541059, 10723718>>, <<88013590, 13150946>>, <<77688247, 36531513>>,
       <<73822426, 41420951>>, <<100853127, 21621933>>, <<49496983, 27228143>>, <<31345652, 65777921>>, <<74771889, 43387764>>,
       <<69840279, 42191116>>, <<15601553, 66809854>>, <<71146297, 48553828>>, <<62663305, 39404470>>, <<20999060, 55734260>>,
       <<94968181, 46005573>>, <<104488946, 61716769>>, <<45467496, 30838904>>, <<116153922, 40567188>>, <<132508256, 38027616>>,
       <<88877856, 64558369>>, <<54738144, 1916987>>, <<36563562, 22617933>>, <<17437342, 50992729>>, <<36642409, 23966664>>,
       <<134059072, 12530620>>, <<8109812, 31272953>>, <<122974204, 66784882>>, <<93575957, 39159484>>, <<105213950, 14271552>>,
       <<13323301, 4509517>>, <<86720274, 16905494>>, <<27536441, 49994633>>, <<90858677, 4748586>>, <<106595472, 59153572>>,
       <<96835596, 29801469>>, <<71848092, 10825525>>, <<118728897, 59730630>>, <<30778419, 21616682>>, <<21079413, 41187902>>,
       <<116164551, 58955061>>, <<7475456, 24716898>>, <<56102220, 15170785>>, <<56357542, 49642939>>, <<117738289, 11417814>>,
       <<49967432, 50340670>>, <<76415624, 9841515>>, <<67281140, 11632531>>, <<64265504, 66897703>>, <<63526222, 61709019>>,
       <<62848576, 31389534>>, <<80037021, 11481054>>, <<58041576, 4589699>>, <<56783725, 18389235>>, <<124128676, 29650478>>,
       <<131055352, 49786928>>, <<33161698, 44634027>>, <<127138702, 65598642>>, <<3196177, 30327835>>, <<44626325, 27160289>>,
       <<120671888, 43751953>>, <<22691884, 2287220>>, <<89792724, 39195235>>, <<133425010, 252526>>, <<82140950, 45471520>>,
       <<61676109, 29863527>>, <<4092583, 22545839>>, <<60537893, 59500700>>, <<62262387, 40037333>>, <<105869307, 17574974>>,
       <<52392596, 30495581>>, <<108144584, 29664944>>, <<54386238, 46747080>>, <<85273367, 33691413>>, <<101837514, 8368266>>,
       <<22289521, 44890262>>, <<127977741, 21008584>>, <<60413605, 61164896>>, <<64360159, 22172122>>, <<130539652, 47635313>>,
       <<76656791, 31437530>>, <<69776034, 5684404>>, <<28668579, 56904197>>, <<29532495, 11404030>>, <<102078584, 37012805>>,
       <<67905447, 26796443>>, <<88403183, 7304594>>, <<93336249, 26774589>>, <<91583382, 22245145>>, <<43403679, 60546038>>,
       <<115820384, 58194753>>, <<60369294, 17050386>>, <<23612589, 62655455>>, <<116396168, 18186845>>, <<120988255, 27787395>>,
       <<16173725, 20399786>>, <<118803881, 46266468>>, <<92386741, 14729083>>, <<36229147, 10973811>>, <<77194522, 17454243>>,
       <<123747751, 19488711>>, <<20382678, 30145542>>, <<88588818, 34273472>>, <<32271458, 64132045>>, <<20046848, 32316925>>,
       <<127564754, 34755557>>, <<133574301, 8080830>>, <<87929098, 16254847>>, <<106347267, 14537614>>, <<53018807, 65788090>>,
       <<57498492, 14819685>>, <<82546707, 19243917>>, <<109233674, 27349349>>, <<94065567, 43308878>>, <<63048048, 43566304>>,
       <<84242258, 45383833>>, <<54048046, 49844343>>, <<108737325, 63810349>>, <<116632646, 31564587>>, <<103843740, 15152359>>,
       <<43161240, 53922925>>, <<51139935, 23676437>>, <<131520770, 22990858>>, <<50761138, 22055522>>, <<89214436, 22438996>>,
       <<12946384, 51951795>>, <<17679714, 33308148>>, <<30279318, 64373801>>, <<90314221, 49348464>>, <<30582622, 38280541>>,
       <<88167034, 55514979>>, <<9766174, 12005963>>, <<92805397, 35520620>>, <<94233452, 20552046>>, <<34441318, 14445558>>,
       <<32053346, 33393721>>, <<33681591, 65893212>>, <<66282811, 57246961>>, <<24827281, 56258335>>, <<31463555, 56490305>>,
       <<107962226, 32593826>>, <<125683239, 24899741>>, <<21589819, 58732568>>, <<69724013, 43489043>>, <<88425698, 14410296>>,
       <<127410624, 62441188>>, <<75109757, 57099067>>, <<71307840, 40569488>>, <<103566563, 42592232>>, <<105851949, 65100144>>,
       <<95590427, 22064049>>, <<83556811, 7566909>>, <<108891476, 40123073>>, <<5647471, 17543113>>, <<103005043, 4036305>>,
       <<29840110, 2615085>>, <<47440003, 56870481>>, <<52839787, 22127073>>, <<69784000, 19880788>>, <<79198334, 42801358>>,
       <<78757609, 61029762>>, <<42494882, 21632720>>, <<48457562, 28307432>>, <<88044692, 37187004>>, <<124999075, 42175263>>,
       <<51164046, 50364723>>, <<1075932, 61796350>>, <<114582719, 31892361>>, <<119078281, 49906245>>, <<112849015, 38240379>>,
       <<85365032, 15277757>>, <<56006905, 46753346>>, <<8764734, 45078238>>, <<123575301, 11253404>>, <<58574437, 9225666>>,
       <<16451476, 4169514>>, <<83868357, 5979815>>, <<5948735, 42359771>>, <<52195651, 50032770>>, <<80966623, 35954679>>,
       <<107745287, 29155464>>, <<48201343, 10295585>>, <<26301670, 35972337>>, <<46144114, 60842346>>, <<110112013, 67043188>>,
       <<12194963, 63129019>>, <<18660192, 3637948>>, <<46669922, 35084498>>, <<127781825, 17513046>>, <<118551206, 34621771>>,
       <<129814858, 34087019>>, <<6471431, 29504641>>, <<67265944, 1957314>>, <<19492567, 500886>>, <<78576295, 29578704>>,
       <<106433694, 63781140>>, <<64688883, 14860640>>, <<92626939, 9690134>>, <<91430381, 11389507>>, <<68026885, 41641750>>,
       <<52324069, 66639860>>, <<32169636, 53231677>>, <<96690322, 14698977>>, <<131728711, 48232830>>, <<129927199, 63880755>>,
       <<124024621, 28615657>>, <<113806439, 22282200>>, <<88046468, 54062939>>, <<66508960, 3207242>>, <<16199134, 51562213>>,
       <<107197309, 36656856>>, <<24625603, 26680030>>, <<124894632, 62714082>>, <<115089808, 38507329>>, <<38020010, 64215262>>,
       <<121677973, 21191817>>, <<101484676, 51148135>>, <<108963663, 42153799>>, <<14560085, 58862400>>, <<36475273, 64997975>>,
       <<20812598, 34733940>>, <<126351098, 804367>>, <<32736990, 17198300>>, <<59585779, 9591435>>, <<100965930, 64849576>>,
       <<53298687, 18885530>>, <<84811167, 4867255>>, <<83843207, 35197664>>, <<50941001, 66064189>>, <<124449737, 14889059>>,
       <<89744329, 55981860>>, <<99303449, 3553771>>, <<98190857, 33227997>>, <<83186551, 23396060>>, <<22737727, 11984194>>,
       <<122758145, 13185848>>, <<126507916, 7577048>>, <<13728674, 19917916>>, <<49376860, 45814200>>, <<25129057, 16065805>>,
       <<17722752, 59104353>>, <<77733540, 19803356>>, <<58160438, 63739914>>, <<17891918, 37992090>>, <<64675507, 16734031>>,
       <<93364441, 1485347>>, <<18240829, 34640257>>, <<86707153, 60523881>>, <<88466753, 50738104>>, <<111688993, 2553125>>,
       <<134056004, 52882281>>, <<118206159, 53176928>>, <<50189653, 28603451>>, <<11149919, 32295687>>, <<44754478, 40679074>>,
       <<22701363, 43428659>>, <<114471017, 46714952>>, <<49129408, 52845453>>, <<75240628, 3689875>>, <<97497055, 43122738>>,
       <<61821463, 3748797>>, <<133954293, 32559321>>, <<88448197, 22398460>>, <<80059941, 40529536>>, <<22283379, 52257001>>,
       <<32249005, 27244543>>, <<92411467, 24556800>>, <<58996402, 64026593>>, <<77794909, 66009562>>, <<118009893, 26672839>>,
       <<90862726, 51958840>>, <<112442023, 63147460>>, <<49236942, 25396596>>, <<9096356, 9675125>>, <<37200716, 45631949>>,
       <<121481930, 41829607>>, <<32221493, 41300745>>, <<16469823, 6392025>>, <<9220832, 14588961>>, <<134188745, 27146273>>,
       <<28087725, 21121322>>, <<10254679, 29035867>>, <<48121249, 14654116>>, <<5816622, 55474484>>, <<98006753, 25535117>>,
       <<92411687, 13420575>>, <<56735623, 36818192>>, <<97372898, 27919334>>, <<2409136, 38138819>>, <<106920063, 57431416>>,
       <<86183352, 1074182>>, <<101012605, 444540>>, <<19123979, 5742620>>, <<127797976, 6304030>>, <<132292467, 63280057>>,
       <<64414154, 65438601>>, <<42925927, 12183958>>, <<69365826, 27649080>>, <<95116705, 56109943>>, <<61943227, 47730689>>,
       <<72964258, 3082486>>, <<127901595, 7831431>>, <<95111153, 6738872>>, <<52042192, 10267144>>, <<122081831, 54158326>>,
       <<105727850, 59716697>>, <<2821655, 8595536>>, <<66220186, 19076450>>, <<40445741, 37127091>>, <<40947056, 21508647>>,
       <<49640320, 30703787>>, <<112218210, 58509227>>, <<81896501, 33995546>>, <<33036212, 63274408>>, <<9025015, 52530183>>,
       <<20151541, 20840172>>, <<50349802, 22326733>>, <<72715691, 58432967>>, <<66839398, 42466018>>, <<57224916, 18334910>>,
       <<70885575, 11569319>>, <<41557229, 29765019>>, <<127728259, 19831637>>, <<29485629, 348077>>, <<49524366, 25585975>>,
       <<88401730, 63794362>>, <<112523256, 15398735>>, <<54203720, 25164618>>, <<85147259, 64631507>>, <<34081693, 5172953>>,
       <<1482403, 13387609>>, <<130045537, 62004448>>, <<9068216, 24333458>>, <<102287039, 55163767>>, <<4249294, 44140871>>,
       <<40144220, 55957610>>, <<69162435, 15653435>>, <<120696493, 45841815>>, <<107877898, 60517570>>, <<40164086, 1284886>>,
       <<1073062, 12375368>>, <<101098744, 9901447>>, <<100099142, 56707923>>, <<125237021, 54225348>>, <<17876853, 4063414>>,
       <<89786668, 40814243>>, <<82870654, 51002826>>, <<117764834, 58972070>>, <<113762108, 21346392>>, <<103047376, 13450439>>,
       <<114075015, 21295350>>, <<10959725, 45646867>>, <<132488683, 17956252>>, <<81027236, 63812660>>, <<120218996, 42778623>>,
       <<20205324, 54231060>>, <<69309384, 3256627>>, <<119079648, 55762669>>, <<129634695, 15220872>>, <<82085793, 34951674>>,
       <<119932030, 43110791>>, <<3113317, 11750511>>, <<14022601, 40784226>>, <<34277414, 60327637>>, <<117349934, 14218283>>,
       <<95731907, 12877612>>, <<57205962, 19430231>>, <<122878890, 8525443>>, <<69157778, 15966544>>, <<19510446, 41842625>>,
       <<126470800, 417410>>, <<99150994, 21446849>>, <<133501623, 39407262>>, <<104799733, 54217425>>, <<67670066, 52042486>>,
       <<120094505, 3533881>>, <<17776447, 62814623>>, <<1022280, 36151217>>, <<35425069, 9725662>>, <<127653039, 56878700>>,
       <<11820183, 37364479>>, <<101666779, 21900489>>, <<72265977, 39427575>>, <<17697987, 36028796>>, <<28001035, 25010061>>,
       <<96506245, 6967989>>, <<52178488, 10579621>>, <<118054778, 4527292>>, <<6816260, 35260533>>, <<77191765, 11060950>>,
       <<114292054, 61724437>>, <<31989844, 59444829>>, <<37218149, 51358386>>, <<77753126, 34704128>>, <<23326164, 38035014>>,
       <<86844572, 50634117>>, <<123820314, 12584642>>, <<42879263, 58369342>>, <<22829549, 33984247>>, <<117992163, 50506298>>,
       <<7198669, 43923170>>, <<114359451, 4155861>>, <<56451397, 7449383>>, <<107230894, 11722123>>, <<50436798, 36909544>>,
       <<128709166, 39079697>>, <<88068151, 67086171>>, <<80043828, 33370535>>, <<9844042, 47994303>>, <<77948800, 30887831>>,
       <<31737979, 66211909>>, <<95361902, 31968487>>, <<42730406, 15419458>>, <<30740330, 25365470>>, <<18865689, 20214097>>,
       <<34161316, 38057801>>, <<16767455, 19936972>>, <<37495255, 41618111>>, <<72047299, 46996654>>, <<115052778, 15898951>>,
       <<104222172, 32933351>>, <<48587886, 33109309>>, <<124120181, 66971620>>, <<47113403, 62231178>>, <<57283565, 54762095>>,
       <<73214453, 31994905>>, <<80383917, 30711910>>, <<66117277, 62730222>>, <<88987400, 30109111>>, <<26479216, 51531307>>,
       <<28504515, 33622173>>, <<45087458, 41516701>>, <<58973793, 23772397>>, <<33973392, 19461408>>, <<76266752, 22153877>>,
       <<9860386, 24936709>>, <<56832581, 27310865>>, <<61508589, 17498677>>, <<81086137, 60591712>>, <<19193415, 48412127>>,
       <<87991757, 40666709>>, <<62024138, 34777747>>, <<124171746, 5238386>>, <<18521495, 2068921>>, <<53811070, 25035367>>,
       <<105083117, 57253596>>, <<125529227, 48300068>>, <<108755347, 2657497>>, <<119446357, 52477178>>, <<58795314, 64161428>>,
       <<30297275, 45654801>>, <<34625508, 37619149>>, <<85304767, 32415473>>, <<88942100, 61594946>>, <<56972324, 55506915>>,
       <<25637213, 62080891>>, <<117426186, 30854283>>, <<43647867, 14711500>>, <<32223880, 53745523>>, <<111814384, 5417724>> >>,
    \* random.seed(16)
    <<
       <<48522765, 31488993>>, <<64489023, 19121559>>, <<55962434, 15209867>>, <<59963012, 392827>>, <<54964270, 57320138>>,
       <<88275781, 47714500>>, <<34742981, 15962424>>, <<85227710, 14927030>>, <<1359407, 19904312>>, <<40539619, 54687762>>,
       <<44971441, 44742490>>, <<19052275, 63866241>>, <<99779371, 40406779>>, <<41622025, 1488591>>, <<105930267, 14787483>>,
       <<128339667, 40452654>>, <<34025000, 1367227>>, <<119929003, 10332068>>, <<108399179, 40671200>>, <<89579457, 42342740>>,
       <<3673452, 31187433>>, <<61309091, 40177238>>, <<84120793, 47213913>>, <<39758733, 66131082>>, <<30109802, 52522846>>,
       <<41579335, 24278818>>, <<34659721, 28204597>>, <<105740110, 5767365>>, <<46678314, 33171428>>, <<56790644, 34678050>>,
       <<86304999, 11560559>>, <<127289884, 37758430>>, <<39328746, 38839624>>, <<5906466, 18978305>>, <<130712548, 5610643>>,
       <<111745729, 67104976>>, <<106076458, 414849>>, <<70245890, 25036174>>, <<31514374, 32875726>>, <<20737901, 20728197>>,
       <<40834144, 21233775>>, <<61858577, 30440416>>, <<8822393, 11023038>>, <<93856473, 32363507>>, <<97694729, 57028781>>,
       <<1753927, 29872344>>, <<113068822, 58001667>>, <<65972298, 938713>>, <<123314604, 56363785>>, <<63763919, 46909084>>,
       <<106802184, 8250364>>, <<60970605, 55899048>>, <<82279133, 5244804>>, <<67005838, 43911997>>, <<3054026, 64967007>>,
       <<19320519, 47451354>>, <<31173619, 61708383>>, <<54521468, 60180967>>, <<49559751, 2216384>>, <<72372821, 2885606>>,
       <<88498644, 43631946>>, <<53688558, 40521283>>, <<42865727, 32042923>>, <<68601689, 44862823>>, <<127878089, 54615706>>,
       <<105068702, 45678740>>, <<87966726, 55699058>>, <<109654320, 4757514>>, <<30576280, 21473339>>, <<13543148, 47484584>>,
       <<12499408, 36355738>>, <<16309446, 16316385>>, <<1226607, 26461986>>, <<83964064, 3127013>>, <<123313029, 56587147>>,
       <<15247187, 49518685>>, <<92180775, 3236068>>, <<126242112, 56825261>>, <<102727927, 26352593>>, <<20559463, 60380844>>,
       <<85678154, 46535488>>, <<34289331, 16082310>>, <<23910454, 39064836>>, <<1495183, 16033566>>, <<70518438, 16404256>>,
       <<123343922, 7790837>>, <<13963087, 43010270>>, <<19761892, 17958283>>, <<52121018, 27312777>>, <<5178715, 27178096>>,
       <<62338350, 59298207>>, <<98012750, 31299801>>, <<61841293, 17440016>>, <<5239276, 3966608>>, <<4070533, 47452639>>,
       <<26602285, 28694646>>, <<89545015, 17137366>>, <<124142683, 64907214>>, <<67490637, 25784621>>, <<13863480, 54502473>>,
       <<28980872, 7629594>>, <<55827002, 42449816>>, <<14528118, 19043087>>, <<15553004, 30586620>>, <<58249594, 9475149>>,
       <<112812924, 26823260>>, <<31881938, 8447744>>, <<118506667, 8806848>>, <<117587040, 27088230>>, <<58095457, 33646076>>,
       <<30182318, 26544393>>, <<24776734, 24314512>>, <<89581155, 33291030>>, <<110822880, 11686691>>, <<115495878, 27381531>>,
       <<28012210, 44174108>>, <<57256082, 56826006>>, <<2947650, 32763739>>, <<40890526, 38417415>>, <<39588553, 65379391>>,
       <<16610309, 56875478>>, <<10227753, 50430473>>, <<133310941, 52792028>>, <<40932073, 49469445>>, <<66972535, 16211508>>,
       <<71721199, 43243934>>, <<63377301, 14035771>>, <<79118593, 29661669>>, <<67436635, 8961178>>, <<65809300, 37137735>>,
       <<10674909, 51223669>>, <<84889744, 66518372>>, <<89759904, 7202751>>, <<97170524, 44306680>>, <<42045861, 3900380>>,
       <<62058259, 5402571>>, <<108220825, 33318757>>, <<97694507, 50676028>>, <<7040981, 34450605>>, <<44940917, 35677383>>,
       <<23013856, 6699731>>, <<95422564, 24451724>>, <<54008144, 19000825>>, <<52502666, 4347293>>, <<29926144, 12807195>>,
       <<60950542, 14084392>>, <<96417962, 877489>>, <<84697545, 14173>>, <<29748657, 22357769>>, <<53039944, 40723157>>,
       <<83632453, 13647950>>, <<7446126, 18071502>>, <<121111454, 42964023>>, <<3077111, 25919819>>, <<83892870, 3869467>>,
       <<19771225, 44703072>>, <<128354069, 35939096>>, <<92855673, 63883384>>, <<29873948, 13881490>>, <<67592760, 52940136>>,
       <<113474212, 42146526>>, <<114633087, 36177947>>, <<88960271, 55478723>>, <<85696450, 48639322>>, <<99637963, 63330714>>,
       <<122876417, 17966998>>, <<68955288, 1895149>>, <<82569963, 41110472>>, <<107139255, 53965136>>, <<68544625, 65123992>>,
       <<29348580, 31643633>>, <<77916971, 32290505>>, <<46886475, 9174638>>, <<95855107, 30919037>>, <<100403815, 48228063>>,
       <<121665242, 11594101>>, <<14598586, 12725363>>, <<3014802, 6169246>>, <<124993963, 25086402>>, <<98037050, 19244197>>,
       <<133872953, 43852046>>, <<109231666, 43149829>>, <<127958505, 6516151>>, <<20850138, 2554781>>, <<24943711, 62391083>>,
       <<82263548, 46227197>>, <<101731227, 46347283>>, <<15775723, 48368157>>, <<127259173, 51084327>>, <<30850948, 23122928>>,
       <<27321892, 38065656>>, <<58556337, 6090432>>, <<24438900, 62717981>>, <<12058287, 30975902>>, <<10577442, 59286185>>,
       <<4382953, 38529075>>, <<20211837, 10237631>>, <<91183491, 48702677>>, <<104679115, 10590964>>, <<103713057, 13767539>>,
       <<56034795, 2860469>>, <<101047869, 23778897>>, <<15460274, 45776010>>, <<116081563, 27048325>>, <<55027542, 17383354>>,
       <<16482037, 40997802>>, <<51438689, 39943670>>, <<25973842, 23732603>>, <<99720905, 29602873>>, <<50230201, 29060956>>,
       <<2275446, 23070789>>, <<25841996, 55461887>>, <<10754330, 14266786>>, <<127711764, 25745716>>, <<55182347, 59439985>>,
       <<105154925, 3673510>>, <<79664124, 14205736>>, <<55345440, 51889211>>, <<98267978, 44827681>>, <<74213543, 22923691>>,
       <<5840518, 34667177>>, <<133421440, 27235158>>, <<46822738, 1426681>>, <<87472605, 9845176>>, <<55961393, 15819157>>,
       <<129164080, 21603886>>, <<22410922, 27140281>>, <<7564977, 25241774>>, <<5712195, 58257415>>, <<53702907, 42809559>>,
       <<113850138, 50320641>>, <<60055400, 43731210>>, <<124999388, 2431188>>, <<19202075, 60157632>>, <<129666416, 1934>>,
       <<22502787, 49410269>>, <<118662041, 66681146>>, <<26173602, 44691419>>, <<78165658, 19752078>>, <<82423323, 44836587>>,
       <<130350329, 39589881>>, <<55301905, 64362931>>, <<113049264, 1756618>>, <<6896055, 7869724>>, <<120686697, 55214206>>,
       <<69594247, 54742227>>, <<72105331, 70661>>, <<130065642, 8406063>>, <<42125162, 40688928>>, <<82443521, 5364312>>,
       <<78733571, 35848980>>, <<40614323, 29991805>>, <<19678573, 40075789>>, <<57612560, 63292196>>, <<37972670, 37775621>>,
       <<81866501, 54072672>>, <<54829536, 35879544>>, <<11050000, 60775923>>, <<92553855, 51948121>>, <<123983996, 9953140>>,
       <<82798331, 2858251>>, <<39961902, 17620868>>, <<40684503, 43805501>>, <<128540285, 46809069>>, <<59622639, 61791004>>,
       <<97286079, 21198182>>, <<10010565, 60582610>>, <<109243684, 54934795>>, <<119923714, 42174748>>, <<34997156, 25322943>>,
       <<41200437, 58223712>>, <<87263291, 66566845>>, <<127896399, 37888322>>, <<105510401, 32038451>>, <<2925601, 8334038>>,
       <<15426463, 22456012>>, <<119270270, 66975023>>, <<53933072, 18321059>>, <<127883604, 58080608>>, <<60359141, 19439410>>,
       <<112095870, 52581221>>, <<29305092, 18260326>>, <<129464121, 952387>>, <<63682972, 46970403>>, <<551467, 48280619>>,
       <<26551337, 58578175>>, <<11062684, 53606965>>, <<56207383, 10443419>>, <<128485176, 39788345>>, <<130322663, 15022792>>,
       <<124520606, 22545780>>, <<54866439, 38361654>>, <<103253134, 7256519>>, <<99734386, 65209469>>, <<111626665, 17934421>>,
       <<130054440, 59626753>>, <<111784202, 53439133>>, <<102607217, 732027>>, <<42593358, 65305969>>, <<22786821, 25073091>>,
       <<56102648, 39404437>>, <<39024121, 24459197>>, <<101009286, 14412140>>, <<21110926, 43963490>>, <<27199255, 54038915>>,
       <<98104395, 35133934>>, <<5297257, 35760682>>, <<11227648, 18681048>>, <<64986, 47442577>>, <<2629821, 36966654>>,
       <<13218249, 56652745>>, <<99301741, 56485133>>, <<36097641, 13092791>>, <<14327566, 8006673>>, <<66803763, 33143354>>,
       <<47981241, 1496735>>, <<479825, 59342851>>, <<8832307, 47458324>>, <<34077426, 46135367>>, <<56322424, 58440774>>,
       <<15844056, 22031858>>, <<56300093, 40020995>>, <<64941746, 25171374>>, <<124589124, 15932211>>, <<81733251, 13518115>>,
       <<40898592, 10707425>>, <<29888639, 44464969>>, <<24483237, 11619405>>, <<51963799, 49574488>>, <<128052091, 23693381>>,
       <<129984773, 4910108>>, <<19893132, 1854806>>, <<86559332, 13689454>>, <<102516981, 9674685>>, <<124224417, 66732995>>,
       <<101807639, 53910632>>, <<84999078, 27696609>>, <<12191970, 46973223>>, <<35438593, 62914957>>, <<126120676, 55297293>>,
       <<122206266, 19403057>>, <<118798385, 28716008>>, <<45215735, 46684003>>, <<104961649, 21824586>>, <<105768287, 63783870>>,
       <<53148593, 13149233>>, <<44978494, 16768831>>, <<61701644, 1653366>>, <<72225414, 65659808>>, <<2559478, 23493502>>,
       <<2885622, 29445018>>, <<134111540, 36189966>>, <<54601161, 34235050>>, <<55033224, 61484846>>, <<79128769, 5968489>>,
       <<70953284, 9501653>>, <<93654639, 16075741>>, <<71431408, 16511846>>, <<2581411, 11603062>>, <<5800641, 11411472>>,
       <<35309944, 14711533>>, <<48461026, 32581209>>, <<132306531, 2375893>>, <<66718480, 65846726>>, <<17553195, 56148218>>,
       <<112171944, 16419067>>, <<42243042, 31466798>>, <<56495955, 63554676>>, <<84870993, 25031640>>, <<96578341, 22423748>>,
       <<32725694, 19546678>>, <<55564660, 43141560>>, <<1324343, 65371446>>, <<125473088, 27290879>>, <<117576915, 198041>>,
       <<109940233, 64162765>>, <<27484050, 64992425>>, <<84168615, 43180290>>, <<57945087, 42752101>>, <<20336016, 507528>>,
       <<28597130, 59151989>>, <<117039383, 64285400>>, <<81580982, 61333446>>, <<80123903, 44372421>>, <<18285303, 1892243>>,
       <<78813453, 6467391>>, <<119932307, 34096356>>, <<27024633, 41280582>>, <<31527655, 63562411>>, <<125353213, 26751650>>,
       <<36748499, 1036995>>, <<61776389, 3911552>>, <<123160372, 21560814>>, <<98696465, 20769242>>, <<41964235, 46562867>>,
       <<44807242, 52390709>>, <<33133999, 15945255>>, <<5440278, 65076213>>, <<70313616, 18879906>>, <<19665135, 47555558>>,
       <<34511290, 21732448>>, <<111115686, 23540276>>, <<16168407, 16516445>>, <<10807459, 33399937>>, <<6932610, 20118571>>,
       <<84824182, 66819212>>, <<32900171, 57982607>>, <<36075568, 26681839>>, <<69911574, 10445358>>, <<98233324, 19218138>>,
       <<130201691, 34191420>>, <<8018182, 55321421>>, <<46674502, 25678374>>, <<2056358, 14667781>>, <<47365978, 5321249>>,
       <<89387057, 21576955>>, <<45342738, 24605779>>, <<57582829, 34347124>>, <<41065576, 16516638>>, <<131601600, 40450715>>,
       <<108691376, 7545200>>, <<119263205, 12842378>>, <<82342384, 48472869>>, <<119994208, 40723823>>, <<86428738, 59005564>>,
       <<12404190, 39652909>>, <<17729406, 58475043>>, <<127600967, 28749722>>, <<74185048, 12464653>>, <<99001865, 60536173>>,
       <<75069064, 41941847>>, <<120088423, 8521043>>, <<26823640, 40711432>>, <<21434946, 53875906>>, <<29254929, 46992955>>,
       <<98379422, 52058070>>, <<80134791, 30974037>>, <<71188932, 16660541>>, <<27401453, 9505249>>, <<56940763, 41686296>>,
       <<38726989, 2258457>>, <<12946066, 15214346>>, <<128074491, 52639297>>, <<107303702, 46670952>>, <<106421128, 43521560>>,
       <<50233985, 56005942>>, <<112474214, 37484203>>, <<108764157, 19722704>>, <<31350520, 42651277>>, <<128234518, 62248156>>,
       <<108383401, 45570414>>, <<7507349, 38555227>>, <<14045095, 924355>>, <<11628332, 44432249>>, <<90011321, 6707254>>,
       <<21026770, 60685461>>, <<19854113, 66184562>>, <<4486270, 26057617>>, <<58670524, 24274051>>, <<41071946, 15565010>>,
       <<75467904, 10785838>>, <<24092092, 23029636>>, <<93880004, 23363053>>, <<83978720, 41558197>>, <<53073672, 51336522>>,
       <<129578818, 49945603>>, <<79483428, 28071235>>, <<72856821, 58677393>>, <<31848570, 36101404>>, <<40509200, 27468995>>,
       <<96226178, 10294184>>, <<46576493, 47836966>>, <<14504191, 63592888>>, <<56238300, 25646603>>, <<65831853, 23952727>>,
       <<19101804, 25345315>>, <<32735526, 28670606>>, <<124248986, 38793523>>, <<108788329, 55144215>>, <<58666723, 38279324>>,
       <<101789427, 52996609>>, <<86456805, 12077488>>, <<26275939, 29203345>>, <<73689153, 63934236>>, <<8818231, 51358092>>,
       <<81097579, 25189689>>, <<71988041, 27702438>>, <<13813543, 744266>>, <<69297915, 41106718>>, <<32715842, 31185975>>,
       <<88541852, 21157203>>, <<132674650, 24085128>>, <<108216020, 30803576>>, <<8957562, 63347170>>, <<79928188, 51854672>>,
       <<73960688, 46716192>>, <<123106951, 12224409>>, <<38068131, 5270909>>, <<12819256, 41372056>>, <<49584153, 52252297>>,
       <<45583981, 41054941>>, <<113147155, 34180552>>, <<118833625, 18752271>>, <<80251119, 4087512>>, <<102099832, 13975089>>,
       <<58515812, 7225263>>, <<36636407, 64643096>>, <<58358804, 15874247>>, <<91327104, 36384270>>, <<43376324, 4954031>>,
       <<111201292, 28343762>>, <<61151450, 62113917>>, <<32529552, 61352512>>, <<68401415, 24788835>>, <<116369748, 18511293>>,
       <<48479009, 34712742>>, <<42397136, 29836004>>, <<68708842, 5953170>>, <<127620609, 16427420>>, <<106779032, 22690391>>,
       <<96626815, 539535>>, <<33547158, 5859842>>, <<82219135, 66010093>>, <<90390484, 29515405>>, <<40156383, 59775589>>,
       <<70612300, 23789860>>, <<21331974, 44126341>>, <<122803510, 25027438>>, <<89787464, 41387172>>, <<87095651, 51881557>>,
       <<109694291, 5819751>>, <<102319101, 25883246>>, <<46075182, 42619171>>, <<81920366, 33041943>>, <<16882792, 10366359>>,
       <<91827871, 6506176>>, <<49973508, 45227608>>, <<70794910, 26950014>>, <<111403502, 56715261>>, <<39630376, 41491142>>,
       <<25312717, 2603188>>, <<107222114, 22299848>>, <<38945612, 38407720>>, <<121013971, 53339523>>, <<125054295, 16983063>>,
       <<21298714, 23165110>>, <<75290704, 50821434>>, <<126467773, 20728976>>, <<87361214, 20675710>>, <<85913467, 53972218>>,
       <<18648878, 28807216>>, <<58425078, 25658487>>, <<108410457, 57827677>>, <<118894, 17971229>>, <<95455919, 39851351>>,
       <<41403440, 57791245>>, <<38157865, 50066395>>, <<111971793, 29959459>>, <<49525323, 51576267>>, <<66995608, 59072356>>,
       <<133856774, 62141360>>, <<40625454, 37413557>>, <<129098432, 22411911>>, <<42360717, 54317915>>, <<79100913, 20032924>>,
       <<7224761, 51334225>>, <<131249996, 52401707>>, <<62476423, 11044963>>, <<66514418, 35707155>>, <<129142578, 23832683>>,
       <<56050676, 14232810>>, <<3129080, 4359313>>, <<45299121, 31788986>>, <<3083037, 17852876>>, <<5102605, 45933066>>,
       <<117187652, 32730027>>, <<105386665, 57447598>>, <<96655867, 32786561>>, <<86051872, 24474812>>, <<50985932, 16381676>>,
       <<76527751, 58540436>>, <<40326940, 59417375>>, <<84286040, 27156044>>, <<104731647, 21154251>>, <<51097120, 61588608>>,
       <<36055304, 47456409>>, <<44590745, 18118623>>, <<29324558, 4956484>>, <<123676469, 13506599>>, <<111849544, 23351869>>,
       <<41331904, 11766525>>, <<13916843, 66629077>>, <<67354240, 881701>>, <<101422845, 27989617>>, <<38901006, 48421878>>,
       <<101931909, 32775168>>, <<50265338, 24907698>>, <<26512479, 13335505>>, <<108498650, 27827156>>, <<96380129, 10720372>> >>,
    \* random.seed(17)
    <<
       <<70059494, 27794342>>, <<108272203, 20362406>>, <<128915426, 24536576>>, <<38872860, 11723132>>, <<102825199, 47321314>>,
       <<94518790, 36251227>>, <<88769331, 18674820>>, <<14785699, 61571915>>, <<3615393, 16703604>>, <<51562572, 54706212>>,
       <<100179467, 28156626>>, <<33874375, 57693817>>, <<67323970, 53846405>>, <<42605416, 42984892>>, <<113592195, 45931638>>,
       <<126861779, 48605104>>, <<53900623, 9230247>>, <<134009288, 36989359>>, <<8347375, 9387300>>, <<109066533, 53125030>>,
       <<117482992, 13191253>>, <<20255532, 59244046>>, <<94699816, 35759428>>, <<75013196, 53807483>>, <<128203144, 46025322>>,
       <<28187066, 22215455>>, <<72472654, 8287971>>, <<118441253, 48022370>>, <<85734685, 4642491>>, <<41500058, 27492780>>,
       <<10987580, 34043559>>, <<126134605, 57628635>>, <<63632419, 42961442>>, <<133724636, 40261474>>, <<19006188, 45809254>>,
       <<109012209, 27425651>>, <<109169763, 33961787>>, <<123476957, 22574224>>, <<2393681, 29043512>>, <<49954877, 38366331>>,
       <<6934894, 60188557>>, <<100936406, 49585875>>, <<47599208, 3375284>>, <<128782610, 32026861>>, <<50308698, 38928298>>,
       <<103934843, 346136>>, <<116472624, 27209821>>, <<32070865, 7857748>>, <<74734662, 14350777>>, <<128499003, 16681234>>,
       <<70721705, 64247773>>, <<48279166, 3899832>>, <<35863025, 4310939>>, <<105558175, 18487463>>, <<25870131, 50165403>>,
       <<81053606, 55609364>>, <<74564179, 35777917>>, <<74286938, 60513566>>, <<17379308, 16788772>>, <<88391116, 20643247>>,
       <<123014470, 23341909>>, <<42799214, 11457312>>, <<44570109, 6315840>>, <<122009385, 38581774>>, <<77624177, 52506071>>,
       <<36584761, 22488959>>, <<1310415, 3397432>>, <<101102113, 66473575>>, <<46708306, 1289505>>, <<62701006, 49972398>>,
       <<36574731, 31796922>>, <<84973511, 3620922>>, <<97842641, 13307020>>, <<41579053, 17319210>>, <<10070331, 50210521>>,
       <<132444782, 48003550>>, <<122143651, 32541481>>, <<2773124, 41678451>>, <<75723603, 35248844>>, <<92073137, 9287344>>,
       <<54091455, 32540332>>, <<98199121, 63849688>>, <<128824232, 65671417>>, <<79208130, 54791304>>, <<52556150, 12300148>>,
       <<26259450, 66799975>>, <<33744814, 64484818>>, <<20240232, 45386391>>, <<14818681, 60893047>>, <<28506465, 3370733>>,
       <<113014586, 65315364>>, <<72071962, 20476393>>, <<108036650, 59707706>>, <<123505242, 21173390>>, <<108821678, 21217228>>,
       <<6636118, 10834731>>, <<124280122, 28118451>>, <<12454360, 46394414>>, <<103477273, 20926902>>, <<112601095, 16813519>>,
       <<88241628, 66914166>>, <<54181372, 32229334>>, <<10068620, 36382429>>, <<11429104, 36442376>>, <<85429946, 65719624>>,
       <<32441002, 15095201>>, <<71441738, 64284549>>, <<35598181, 38653204>>, <<21932395, 53779193>>, <<39626219, 3302841>>,
       <<97289973, 59572602>>, <<65339033, 39353111>>, <<52716669, 55327754>>, <<65294570, 14929963>>, <<74354454, 27372850>>,
       <<69211744, 42064430>>, <<59734802, 5194217>>, <<129840314, 30826817>>, <<100895785, 14672097>>, <<30744066, 32409692>>,
       <<42714085, 55003808>>, <<25340232, 65079423>>, <<48867618, 40141873>>, <<3808831, 64528128>>, <<99925511, 38789974>>,
       <<76220770, 34859303>>, <<56731259, 3602863>>, <<119915023, 55853131>>, <<44123584, 64717648>>, <<77656254, 11348981>>,
       <<124789886, 64732294>>, <<74606231, 15508806>>, <<82272170, 21036673>>, <<49385947, 11553640>>, <<133962399, 65266368>>,
       <<101305180, 14164200>>, <<40714284, 29112953>>, <<47716512, 30135717>>, <<79390990, 6269601>>, <<69610184, 7080775>>,
       <<70236991, 705147>>, <<25781788, 63230404>>, <<77269521, 60305673>>, <<94482167, 37142761>>, <<102675414, 11995818>>,
       <<60314787, 31114105>>, <<59801749, 57422318>>, <<67680295, 9204782>>, <<71974684, 36867790>>, <<63743533, 30387242>>,
       <<1624039, 19745923>>, <<35356618, 12351038>>, <<132581235, 549397>>, <<110906827, 60495081>>, <<62729744, 22638804>>,
       <<100928769, 22062152>>, <<28353357, 3476366>>, <<35859137, 6613044>>, <<69475043, 44771069>>, <<93857770, 1026587>>,
       <<3699601, 7570781>>, <<63312141, 47663130>>, <<121612582, 20227506>>, <<82175812, 13693861>>, <<133290452, 52345616>>,
       <<13245625, 52213604>>, <<121950439, 55029334>>, <<112393640, 66121822>>, <<3510931, 30558763>>, <<72019284, 55114225>>,
       <<101908784, 62009524>>, <<29803404, 58206083>>, <<87147878, 2008641>>, <<114152735, 26842159>>, <<106561745, 8236886>>,
       <<57459738, 64158721>>, <<7831113, 49548935>>, <<72366455, 4014417>>, <<25243655, 65390495>>, <<72303248, 17605237>>,
       <<36162954, 23951004>>, <<46615678, 63089029>>, <<72978515, 39008850>>, <<110002935, 67028722>>, <<130905052, 27960579>>,
       <<54429277, 61266016>>, <<1000664, 35282764>>, <<100684645, 66748578>>, <<45534932, 5430201>>, <<101687077, 50297960>>,
       <<111477681, 53285401>>, <<4499741, 42039419>>, <<98090682, 58057454>>, <<38229105, 21835788>>, <<43170355, 7882779>>,
       <<44861907, 8539829>>, <<72260178, 56173862>>, <<32649448, 61987996>>, <<66366398, 55152451>>, <<38025143, 29698334>>,
       <<16728121, 17109520>>, <<33551318, 4946265>>, <<91394045, 28218281>>, <<41676911, 45961016>>, <<26884693, 32401593>>,
       <<49066369, 8603264>>, <<28672852, 33879968>>, <<132135140, 65427420>>, <<105661381, 38388342>>, <<20354654, 52657639>>,
       <<39435175, 5584505>>, <<58504628, 29361908>>, <<70877046, 60227384>>, <<52135402, 52413133>>, <<70239321, 40562099>>,
       <<102022768, 60399869>>, <<20689546, 44509880>>, <<75057399, 9573530>>, <<22074503, 39356781>>, <<71778513, 62801363>>,
       <<42560394, 33096444>>, <<107799309, 58597412>>, <<118247181, 18895693>>, <<128405056, 62619331>>, <<54645853, 4419072>>,
       <<82776707, 15848513>>, <<22633234, 60546537>>, <<95512221, 10128570>>, <<104424372, 15812752>>, <<57313781, 36726575>>,
       <<43176717, 36273919>>, <<101746253, 29742245>>, <<100710171, 33678235>>, <<107281395, 8623870>>, <<38745487, 62993321>>,
       <<32561434, 33267595>>, <<33640934, 33713704>>, <<25638262, 24995257>>, <<941289, 42645562>>, <<16431605, 22481488>>,
       <<66130876, 5157864>>, <<57786751, 5810065>>, <<119410951, 34577148>>, <<50763329, 16361208>>, <<22861772, 4736937>>,
       <<124938139, 19909731>>, <<9773233, 19359924>>, <<45603204, 60863956>>, <<102490799, 31041859>>, <<43130554, 9967770>>,
       <<129379847, 10032519>>, <<99790439, 17853799>>, <<41380210, 25730737>>, <<115887548, 21846041>>, <<123717851, 38573773>>,
       <<68987218, 42432060>>, <<19266877, 29275095>>, <<13970410, 63673383>>, <<109780560, 50660503>>, <<119180082, 66024784>>,
       <<87761261, 41980901>>, <<103866257, 60269543>>, <<106523056, 17277178>>, <<31827012, 14543487>>, <<28619346, 36547517>>,
       <<116449635, 24786475>>, <<112641845, 48765517>>, <<58541024, 25196046>>, <<36270844, 63410851>>, <<10569326, 20650011>>,
       <<54282129, 65182805>>, <<122002230, 43391047>>, <<27296888, 59141821>>, <<42392993, 799564>>, <<4722451, 58316385>>,
       <<76355341, 39061050>>, <<8064388, 23624063>>, <<90582966, 43621416>>, <<66039385, 27106983>>, <<56796754, 40939187>>,
       <<34805341, 46259357>>, <<40611722, 30154058>>, <<119859778, 51818067>>, <<126265600, 10895009>>, <<100928961, 27843739>>,
       <<28585407, 12706995>>, <<27924272, 57302614>>, <<48689312, 49469288>>, <<117553316, 47459160>>, <<126546392, 13147539>>,
       <<30867834, 51296021>>, <<85015727, 56508113>>, <<50967386, 4787881>>, <<61145059, 44221749>>, <<26525187, 23825957>>,
       <<96848122, 33595648>>, <<104966436, 8391712>>, <<126092741, 39202114>>, <<64986256, 49502442>>, <<59285838, 54624274>>,
       <<86743946, 5895979>>, <<17621848, 15815907>>, <<117905127, 29257787>>, <<103077307, 26424514>>, <<30566663, 45992956>>,
       <<53934401, 25396809>>, <<65234077, 22448286>>, <<114339630, 58492466>>, <<92978580, 53315252>>, <<32099848, 21923868>>,
       <<127659940, 25896293>>, <<124810254, 14369496>>, <<115132188, 11646346>>, <<66125992, 778276>>, <<63512389, 6586089>>,
       <<54561951, 58597412>>, <<131228581, 43649618>>, <<64622819, 6675068>>, <<128783310, 66633253>>, <<24691191, 33333514>>,
       <<4066949, 17757374>>, <<63372557, 8652215>>, <<26681277, 10522736>>, <<34437047, 9841773>>, <<4832036, 57519630>>,
       <<16698313, 19535208>>, <<59204358, 3626512>>, <<11750043, 60334062>>, <<39778469, 56935561>>, <<82208484, 43378297>>,
       <<34890281, 35657128>>, <<41792009, 43440144>>, <<50790878, 34719771>>, <<35336467, 54307324>>, <<75614919, 2271938>>,
       <<104266730, 43469499>>, <<4176257, 47594785>>, <<72003308, 19121547>>, <<71771906, 41058300>>, <<123246549, 4811111>>,
       <<94502044, 3729570>>, <<36867250, 19767287>>, <<82689039, 23588914>>, <<120885444, 32327855>>, <<127697390, 14245272>>,
       <<103012863, 33644514>>, <<14438560, 2922802>>, <<49919739, 24980096>>, <<64250012, 29960963>>, <<44193294, 53878719>>,
       <<101825679, 66736486>>, <<66167005, 24621813>>, <<131338602, 14745320>>, <<1050285, 40327279>>, <<108435186, 53400147>>,
       <<15244608, 23375269>>, <<69603083, 52862418>>, <<19981374, 57146208>>, <<51310541, 7729504>>, <<82048686, 37450151>>,
       <<128688912, 5309649>>, <<5486794, 47895051>>, <<52577033, 62986394>>, <<14697104, 45400116>>, <<99722297, 30935562>>,
       <<19272556, 43575415>>, <<26429034, 36750173>>, <<108555855, 29693444>>, <<6319225, 45524580>>, <<118824622, 56480965>>,
       <<35997271, 1221691>>, <<133690257, 39801852>>, <<14254578, 51902458>>, <<12906286, 9426503>>, <<63893869, 14787789>>,
       <<41466506, 53001786>>, <<86446345, 20168191>>, <<40641378, 40663874>>, <<44385393, 37082955>>, <<2233755, 29356558>>,
       <<11881059, 25755985>>, <<417644, 42568872>>, <<61922511, 6969065>>, <<117572539, 21901586>>, <<72052476, 50550264>>,
       <<43402606, 49385984>>, <<61636337, 62165737>>, <<102770581, 3838100>>, <<116843799, 32698008>>, <<12500637, 35849901>>,
       <<86767495, 31410813>>, <<39850266, 40765685>>, <<124701994, 8245667>>, <<97296618, 58184722>>, <<79200732, 55767781>>,
       <<89401399, 10333386>>, <<102275740, 64225781>>, <<9526595, 45449552>>, <<43247874, 45642685>>, <<5236111, 57229271>>,
       <<20688621, 56502526>>, <<124516411, 63937045>>, <<76786030, 45529205>>, <<26890511, 58672368>>, <<39592109, 50231694>>,
       <<56294597, 53306987>>, <<11452838, 7243503>>, <<109367065, 51360863>>, <<51148938, 53736901>>, <<7566091, 32835744>>,
       <<69070931, 27520469>>, <<55534485, 53543500>>, <<102408009, 45286437>>, <<35353738, 38716443>>, <<31992822, 37766477>>,
       <<67325534, 49293937>>, <<54330169, 40419861>>, <<17364126, 51784248>>, <<98713125, 14898308>>, <<116239234, 22240687>>,
       <<111546692, 15538285>>, <<88281749, 21299292>>, <<63202360, 21123186>>, <<106087015, 62910772>>, <<28322230, 41630215>>,
       <<13282256, 56023665>>, <<27513087, 50464949>>, <<71216941, 31396528>>, <<27941843, 29517920>>, <<58483867, 24512620>>,
       <<109058042, 29324046>>, <<82896408, 3519913>>, <<26704107, 64458808>>, <<16356954, 16730076>>, <<769046, 17393221>>,
       <<6862888, 59642560>>, <<35104858, 58279234>>, <<95568125, 24275931>>, <<111328492, 28753319>>, <<51853264, 47393180>>,
       <<6149601, 35854839>>, <<75112413, 34990688>>, <<127290717, 51389679>>, <<2044680, 1589779>>, <<84407605, 36331192>>,
       <<133965336, 50765319>>, <<43463719, 47008970>>, <<79439445, 21564989>>, <<108866654, 52543599>>, <<89400158, 59394410>>,
       <<23180321, 65977876>>, <<105534600, 24050011>>, <<78638161, 40832979>>, <<88606410, 21275474>>, <<80384608, 16018598>>,
       <<110826068, 17835452>>, <<76701456, 29698706>>, <<123900408, 29964061>>, <<14847571, 8609191>>, <<3203008, 60274431>>,
       <<18465689, 30470371>>, <<68112067, 10271066>>, <<96445934, 29853216>>, <<123158020, 39362162>>, <<977866, 59686526>>,
       <<1047184, 11619896>>, <<51344141, 25198614>>, <<88222024, 46934062>>, <<53540926, 6671636>>, <<37560112, 12848143>>,
       <<27195311, 9442683>>, <<95658729, 1214983>>, <<81407811, 63040919>>, <<127857109, 31397398>>, <<43906911, 10066016>>,
       <<63895229, 14832340>>, <<129130496, 28337151>>, <<93927871, 24273652>>, <<35079891, 47700322>>, <<97822452, 60103122>>,
       <<60026930, 31501060>>, <<12026981, 11544225>>, <<14122494, 16633220>>, <<66867915, 16728840>>, <<41792296, 6857410>>,
       <<34841624, 34726804>>, <<97080835, 38961484>>, <<34591928, 21689561>>, <<60528183, 17510311>>, <<68241754, 26228907>>,
       <<1068642, 30403150>>, <<107931515, 60261692>>, <<35928615, 50266080>>, <<21708355, 64030436>>, <<69057254, 14243654>>,
       <<28613812, 7010339>>, <<4335284, 23998483>>, <<15263101, 47968021>>, <<5406176, 12623566>>, <<47560793, 51403425>>,
       <<43814117, 15257691>>, <<28161636, 33968978>>, <<23484806, 10929186>>, <<113423520, 62383656>>, <<77268963, 65683733>>,
       <<81437233, 41515187>>, <<1285720, 32779132>>, <<123913271, 57195077>>, <<4345422, 47798432>>, <<102538273, 54751416>>,
       <<87741073, 30856028>>, <<55154848, 27847612>>, <<44987738, 34874560>>, <<72640420, 31253565>>, <<78019922, 59447258>>,
       <<113119324, 67069283>>, <<7614785, 1777262>>, <<11966175, 4262451>>, <<83821115, 11265393>>, <<38134110, 51369878>>,
       <<77851585, 54285028>>, <<51376562, 43858349>>, <<4583875, 10441425>>, <<110562130, 19207470>>, <<25077373, 54210162>>,
       <<44773637, 56043188>>, <<99792064, 10979684>>, <<122677533, 49022425>>, <<114950655, 22840309>>, <<124775510, 65362129>>,
       <<42892770, 32801377>>, <<31349819, 37829408>>, <<61568473, 64556302>>, <<111113415, 19670618>>, <<87132169, 49413907>>,
       <<83890718, 66352779>>, <<94769655, 27828472>>, <<28979877, 11336327>>, <<76081822, 40206385>>, <<57367343, 61068649>>,
       <<118186920, 62798739>>, <<41575634, 31169765>>, <<73063910, 20821496>>, <<84881746, 4192246>>, <<94725460, 51606557>>,
       <<105646245, 35470277>>, <<100339190, 22159851>>, <<17877759, 64898658>>, <<129574282, 21951977>>, <<5014576, 324036>>,
       <<98184474, 64658686>>, <<40769115, 52759018>>, <<13495865, 5700485>>, <<48650125, 39352715>>, <<15306137, 33563908>>,
       <<28348421, 61721059>>, <<129771554, 5855157>>, <<108996212, 50662665>>, <<49671881, 10519602>>, <<66301099, 56719334>>,
       <<80330169, 31885911>>, <<42633290, 62246759>>, <<18092974, 54661094>>, <<59218166, 55555617>>, <<113486387, 31858098>>,
       <<128910028, 14610057>>, <<81591391, 15192400>>, <<107586886, 61629775>>, <<56184063, 1990953>>, <<105452921, 16000157>>,
       <<108709007, 37106227>>, <<121159064, 55302938>>, <<25943304, 51592578>>, <<70422398, 43062469>>, <<9910618, 27709351>>,
       <<78063476, 16659537>>, <<63441608, 18376123>>, <<79337809, 19612047>>, <<71408948, 11687707>>, <<46034473, 30168603>>,
       <<18885723, 44060151>>, <<43113932, 64701592>>, <<104723610, 17787397>>, <<37064414, 4321584>>, <<129593120, 48335229>>,
       <<112579527, 31841127>>, <<35398040, 60835819>>, <<60731082, 26017084>>, <<107160667, 45458050>>, <<1219127, 35024654>>,
       <<103346439, 10846256>>, <<54587431, 66490518>>, <<90588083, 22547655>>, <<1195664, 14197727>>, <<87151372, 49954946>>,
       <<7678978, 32470285>>, <<38141689, 8185206>>, <<82378202, 54300242>>, <<85084144, 42800280>>, <<48547020, 60819017>> >>,
    \* random.seed(18)
    <<
       <<24328958, 8242007>>, <<88775705, 30120171>>, <<44903843, 16072322>>, <<26567003, 63881789>>, <<65701636, 42156966>>,
       <<66308212, 12279186>>, <<64393980, 19828828>>, <<61516160, 59515505>>, <<35504656, 13161252>>, <<34064584, 60346544>>,
       <<92862575, 7918844>>, <<43545350, 35037934>>, <<90572883, 51166804>>, <<105652733, 11699227>>, <<116225243, 64904125>>,
       <<126705348, 54430695>>, <<31481824, 11343286>>, <<31862850, 13436919>>, <<98626635, 24530685>>, <<77248097, 34073954>>,
       <<27094465, 54392650>>, <<90946605, 59845055>>, <<117205661, 50741080>>, <<112177354, 33129340>>, <<29003938, 48069438>>,
       <<40124315, 17783569>>, <<894283, 23001138>>, <<130953506, 27205562>>, <<29587027, 51794261>>, <<97590282, 27241343>>,
       <<72195352, 23214020>>, <<79653196, 38467302>>, <<70697279, 18263576>>, <<110800618, 18090876>>, <<80521261, 47562022>>,
       <<40693319, 37034024>>, <<15412249, 18879521>>, <<64076203, 38110789>>, <<123876706, 33605215>>, <<19488722, 33288216>>,
       <<91796061, 53290288>>, <<84706412, 53236363>>, <<21509913, 12740546>>, <<27761294, 43436094>>, <<92106399, 54132365>>,
       <<58651459, 8815977>>, <<54627863, 34459064>>, <<64470254, 38503060>>, <<13585776, 61224114>>, <<94569799, 13504843>>,
       <<78970964, 17408590>>, <<71700744, 56643840>>, <<45585043, 53062979>>, <<108929236, 55900098>>, <<110590781, 44106388>>,
       <<73130259, 31496363>>, <<11903079, 32995701>>, <<19852392, 32048461>>, <<20426427, 32849788>>, <<10582043, 16748173>>,
       <<87014535, 6215158>>, <<72945065, 23651325>>, <<27362459, 62576379>>, <<122186047, 52587221>>, <<84528482, 26395111>>,
       <<106322469, 38844789>>, <<109795893, 35746691>>, <<91473206, 50882747>>, <<70702797, 423487>>, <<132168719, 66394738>>,
       <<17837336, 51876200>>, <<92512791, 56871998>>, <<118680639, 5849115>>, <<64208365, 26856947>>, <<109681945, 27162061>>,
       <<24341431, 25860052>>, <<55866510, 8673604>>, <<36357300, 47474698>>, <<53278030, 45629958>>, <<94204086, 24199800>>,
       <<19264264, 22521032>>, <<45428247, 49005400>>, <<113557023, 41023319>>, <<40454915, 61238545>>, <<16919015, 29118910>>,
       <<133460600, 46892159>>, <<72634051, 57953194>>, <<2432938, 60306023>>, <<76678012, 28427661>>, <<19600077, 51572264>>,
       <<21849990, 41298664>>, <<99155331, 54184119>>, <<87534923, 59787685>>, <<57228938, 383109>>, <<69044091, 37329494>>,
       <<74982142, 55527864>>, <<61595926, 36809985>>, <<13583792, 587061>>, <<103168889, 40737657>>, <<103393748, 17271103>>,
       <<56639572, 49847681>>, <<54212577, 32187740>>, <<81933170, 37471766>>, <<63348687, 58305079>>, <<55743735, 56117013>>,
       <<117594122, 56332687>>, <<121452336, 53160339>>, <<20249050, 15102216>>, <<23105813, 57308475>>, <<105297830, 11802557>>,
       <<128534471, 24730842>>, <<98014500, 42163446>>, <<39849221, 33267498>>, <<7856840, 52340755>>, <<111044978, 6285063>>,
       <<124839705, 23626368>>, <<101819522, 36246243>>, <<98779159, 11984356>>, <<130558321, 57598071>>, <<70288182, 10135972>>,
       <<124835882, 14186099>>, <<35199557, 63492591>>, <<10254180, 10952532>>, <<112669456, 38404970>>, <<93770777, 66819487>>,
       <<106898955, 15478466>>, <<17492805, 62206475>>, <<40274254, 7134585>>, <<78820080, 25090831>>, <<8670734, 23998377>>,
       <<44090397, 5959889>>, <<80928814, 17896758>>, <<125740423, 23323661>>, <<96547790, 11462277>>, <<53228584, 46912967>>,
       <<54749319, 55597301>>, <<68835818, 27469706>>, <<99515704, 35020914>>, <<133621245, 47571782>>, <<1480707, 18334669>>,
       <<124222013, 29148484>>, <<107722450, 50071907>>, <<6134051, 37919811>>, <<34404843, 26993378>>, <<36709324, 6015424>>,
       <<28932075, 19063347>>, <<21784564, 25105193>>, <<18301744, 46595157>>, <<90718805, 43472110>>, <<58764460, 5997969>>,
       <<14372667, 50784994>>, <<113198668, 21959398>>, <<112092074, 45937724>>, <<34916886, 52242836>>, <<111365668, 37422771>>,
       <<104115858, 31271970>>, <<71167305, 38433141>>, <<11799583, 14694158>>, <<95158454, 5087124>>, <<117388651, 31375571>>,
       <<119038235, 52224959>>, <<127503388, 21164789>>, <<21790010, 50957322>>, <<130989021, 48491850>>, <<12552355, 14787923>>,
       <<48818049, 57838469>>, <<72339256, 62087145>>, <<85752968, 32956481>>, <<71089189, 51726983>>, <<121744920, 34019446>>,
       <<103949268, 25527065>>, <<115298416, 27056713>>, <<90826918, 20682113>>, <<61132762, 50844118>>, <<2767570, 34150346>>,
       <<86834829, 61936513>>, <<125562870, 55955733>>, <<25554576, 44077706>>, <<133727178, 13677669>>, <<2356766, 5583418>>,
       <<53298611, 44378238>>, <<100781775, 24507151>>, <<95756707, 4434158>>, <<77489251, 865646>>, <<37643602, 14325905>>,
       <<33074897, 36157661>>, <<18789792, 47841380>>, <<86576623, 21073894>>, <<2458443, 63402888>>, <<17345075, 15433867>>,
       <<96233630, 47640761>>, <<59911392, 18489243>>, <<2302542, 35352942>>, <<56959843, 45248435>>, <<124125495, 49977971>>,
       <<68686977, 11183579>>, <<36039368, 27831940>>, <<18365481, 59818271>>, <<67029385, 41115983>>, <<32533392, 41220427>>,
       <<36897490, 31862007>>, <<8191890, 35309598>>, <<81367473, 47359349>>, <<106504095, 23517756>>, <<67981699, 3747917>>,
       <<82144318, 30486942>>, <<39237166, 53690877>>, <<133187589, 46305013>>, <<38500680, 47540693>>, <<123184073, 41495002>>,
       <<1902973, 12762471>>, <<88689739, 42721684>>, <<116813781, 34907407>>, <<76393188, 59558770>>, <<28991277, 1520018>>,
       <<22491978, 65027541>>, <<132684848, 19948808>>, <<133321653, 56304676>>, <<31681791, 12645018>>, <<55291374, 4473136>>,
       <<111168031, 36996414>>, <<116404770, 11851775>>, <<3925667, 30458827>>, <<73138974, 41968311>>, <<33438558, 30838482>>,
       <<11229286, 49330583>>, <<92971496, 55864613>>, <<65323341, 32188276>>, <<27989135, 12666158>>, <<101982252, 29828448>>,
       <<43303829, 42854749>>, <<35344908, 29077047>>, <<40100058, 8914818>>, <<26333112, 25380381>>, <<113107754, 42234339>>,
       <<44226730, 49350089>>, <<125147741, 46886121>>, <<92221425, 37109553>>, <<72323072, 17603005>>, <<120140738, 66096401>>,
       <<50056968, 14386549>>, <<4749590, 44382559>>, <<88077449, 50208607>>, <<8489998, 41493272>>, <<124505407, 61280907>>,
       <<130659789, 9707866>>, <<52516623, 4480334>>, <<12060452, 33078502>>, <<128514427, 65094809>>, <<34690738, 23431099>>,
       <<129752389, 14254162>>, <<64033161, 4612941>>, <<118838039, 4801025>>, <<117346175, 24164037>>, <<20416569, 22852451>>,
       <<44862134, 951285>>, <<57853563, 23508008>>, <<26788099, 2470373>>, <<124725206, 19377169>>, <<28142379, 54650673>>,
       <<31704270, 63425631>>, <<24498195, 41257427>>, <<20310498, 23157589>>, <<109122933, 42345118>>, <<27196391, 1389350>>,
       <<79097245, 2365941>>, <<16854288, 37620879>>, <<108885386, 63751319>>, <<105295623, 21727402>>, <<126523079, 10078136>>,
       <<7393136, 16190581>>, <<89887837, 53123306>>, <<97574052, 10831144>>, <<45479859, 20390771>>, <<92497089, 37100962>>,
       <<43237194, 52171376>>, <<78455066, 21592701>>, <<114375135, 34842543>>, <<110846747, 39097974>>, <<44575722, 57718073>>,
       <<34756435, 19086831>>, <<127846276, 23899244>>, <<31363195, 66252667>>, <<63346828, 24693842>>, <<56086615, 28013447>>,
       <<48972797, 54269409>>, <<71736214, 52652119>>, <<15649415, 18395066>>, <<62436696, 10259445>>, <<90271420, 61873226>>,
       <<113869410, 13892818>>, <<65814736, 24217715>>, <<30949195, 31401717>>, <<37941219, 54508272>>, <<25628495, 32040714>>,
       <<19681898, 17359661>>, <<41211276, 59714273>>, <<51511220, 46352510>>, <<126857369, 23127907>>, <<101463677, 17305041>>,
       <<123694115, 56405077>>, <<65999157, 20731499>>, <<25899312, 19744305>>, <<76634354, 1470303>>, <<93502349, 26131020>>,
       <<133420269, 45843750>>, <<30911964, 50777722>>, <<102342752, 45325133>>, <<128935671, 48216727>>, <<52803948, 3021591>>,
       <<69895987, 40098456>>, <<14423597, 57311690>>, <<90078994, 23924617>>, <<7388526, 51539885>>, <<104799363, 26445484>>,
       <<101406839, 28392259>>, <<111544877, 50858097>>, <<113511778, 59905621>>, <<9286257, 27934259>>, <<117595980, 41402566>>,
       <<94810751, 45150064>>, <<127201050, 60883815>>, <<120839846, 24096189>>, <<64503388, 23162022>>, <<115060969, 37246991>>,
       <<26796572, 67084816>>, <<130142633, 62649013>>, <<90594256, 28694254>>, <<108989191, 20276287>>, <<73291750, 26265021>>,
       <<77005710, 60349536>>, <<32523032, 47962571>>, <<107546440, 50806439>>, <<70431769, 5263489>>, <<30055461, 4711026>>,
       <<101215332, 50577776>>, <<78087089, 34533841>>, <<57526626, 22846740>>, <<108210364, 17512358>>, <<56700628, 23933603>>,
       <<90989318, 20990481>>, <<72803606, 59143969>>, <<49086643, 38335020>>, <<47542176, 47750693>>, <<79047113, 44060909>>,
       <<24662419, 18895023>>, <<23106346, 2416146>>, <<42323507, 1370814>>, <<95695234, 56876922>>, <<25196792, 25724233>>,
       <<103183626, 16259677>>, <<43974106, 37729462>>, <<126865195, 32539264>>, <<14559689, 31549332>>, <<114379297, 20054532>>,
       <<110603732, 21639696>>, <<111346094, 9625734>>, <<84563074, 5343539>>, <<39874145, 15130839>>, <<128415217, 18152276>>,
       <<29861502, 59085725>>, <<94335077, 27425305>>, <<54585688, 13847180>>, <<9413014, 8171733>>, <<55638994, 20977162>>,
       <<42646403, 22706654>>, <<105824841, 41778010>>, <<27702607, 48557712>>, <<111036485, 59180502>>, <<4165715, 59823199>>,
       <<11618693, 52703699>>, <<83541074, 45382173>>, <<124758765, 37348214>>, <<82532087, 38756565>>, <<21767602, 11014018>>,
       <<122317846, 63518527>>, <<90291722, 600021>>, <<834526, 36899657>>, <<17761102, 65933051>>, <<52331145, 56476747>>,
       <<71205784, 8372830>>, <<75911019, 9053612>>, <<112352061, 34292840>>, <<82380642, 14057053>>, <<128699700, 27443212>>,
       <<54454621, 14728330>>, <<45459021, 9332790>>, <<88644625, 39153008>>, <<121010553, 25952413>>, <<57800420, 65440167>>,
       <<6385632, 36542587>>, <<50921852, 58651108>>, <<27426129, 33203426>>, <<120342093, 46955046>>, <<44035523, 60833805>>,
       <<61031517, 46080544>>, <<82923298, 31107928>>, <<7651463, 27780875>>, <<12093670, 2819619>>, <<69543677, 39889803>>,
       <<33798966, 10493665>>, <<8137284, 45494053>>, <<99913859, 62552659>>, <<98704934, 18176636>>, <<82391347, 59104307>>,
       <<17310711, 43874530>>, <<109338842, 22693764>>, <<133532747, 42587723>>, <<14968990, 1782615>>, <<91367801, 55288610>>,
       <<6897779, 1918906>>, <<14857588, 20280838>>, <<44720046, 18020240>>, <<129808936, 19952486>>, <<61284766, 64829961>>,
       <<72493209, 9822897>>, <<119040534, 22688655>>, <<52768450, 55445036>>, <<38827132, 50025520>>, <<10951790, 4198177>>,
       <<31308070, 35481289>>, <<82239170, 28156751>>, <<118671907, 4631077>>, <<132694265, 8617646>>, <<35203216, 64037053>>,
       <<89757199, 35142052>>, <<42907984, 16608145>>, <<74975892, 2739276>>, <<2175197, 34273924>>, <<124783339, 57283722>>,
       <<104729454, 40131822>>, <<101659265, 29893602>>, <<85556881, 7693582>>, <<51104865, 22606648>>, <<112948106, 5185971>>,
       <<67969863, 28334151>>, <<89022266, 7981304>>, <<36384260, 42326527>>, <<24743536, 45577280>>, <<96397555, 3312082>>,
       <<42377059, 53373809>>, <<6028239, 36543247>>, <<40306068, 14152394>>, <<56578520, 11766445>>, <<25337595, 53905557>>,
       <<18714835, 62936658>>, <<95885873, 31734929>>, <<62152812, 41509279>>, <<67784136, 16202350>>, <<96082196, 66751527>>,
       <<6353325, 9998889>>, <<69306089, 23105012>>, <<132364955, 24349790>>, <<37155112, 64930691>>, <<94074460, 33695066>>,
       <<23891545, 40934169>>, <<50810699, 64075112>>, <<60258777, 35223914>>, <<29166013, 24251284>>, <<32032351, 43554681>>,
       <<44517684, 40538452>>, <<63511503, 48428408>>, <<52405317, 23471503>>, <<66390683, 56600949>>, <<33398984, 28706835>>,
       <<72973851, 26153312>>, <<102988004, 9724328>>, <<63121590, 1549838>>, <<48306594, 10517144>>, <<110261938, 36991625>>,
       <<84042735, 13811748>>, <<66674334, 31254872>>, <<41554780, 28648650>>, <<128362820, 15805954>>, <<15598368, 52993216>>,
       <<123904163, 65629261>>, <<41064357, 47387408>>, <<123077616, 400383>>, <<6051912, 52573215>>, <<93124329, 5891123>>,
       <<64167004, 16496862>>, <<82442040, 28901083>>, <<11688250, 45527191>>, <<50456784, 34344056>>, <<48813221, 2799296>>,
       <<74996036, 62987545>>, <<96448380, 64390134>>, <<127547238, 51017709>>, <<39186279, 56875761>>, <<6165318, 22219623>>,
       <<24552683, 23176437>>, <<122902226, 15801699>>, <<73717359, 6291678>>, <<89535095, 8581256>>, <<133789576, 45070616>>,
       <<106663171, 40274323>>, <<79139866, 39633585>>, <<104312354, 60381063>>, <<22470764, 58996514>>, <<110123741, 16101532>>,
       <<23333927, 22824715>>, <<118316472, 2842955>>, <<114219626, 29237046>>, <<76476715, 55682030>>, <<37417123, 26324241>>,
       <<16861158, 61417246>>, <<65455693, 64960038>>, <<28338521, 43749427>>, <<49316657, 10480450>>, <<20177608, 57447946>>,
       <<11209164, 17168565>>, <<106224872, 63063682>>, <<105202479, 28494162>>, <<79689720, 12264037>>, <<83641953, 25068480>>,
       <<109643929, 17106766>>, <<79854181, 25710825>>, <<85073111, 38179036>>, <<7497740, 13400614>>, <<10452013, 17295304>>,
       <<92889127, 31899575>>, <<72779457, 35008655>>, <<38104646, 60882254>>, <<108618379, 51955326>>, <<61988347, 27829005>>,
       <<77975882, 30886807>>, <<128580656, 28778349>>, <<59832310, 11696674>>, <<119583509, 45928969>>, <<66553536, 36341091>>,
       <<89266817, 33040800>>, <<99896224, 56808432>>, <<68486022, 23421916>>, <<71583906, 2688171>>, <<115881332, 11615841>>,
       <<102459163, 37668049>>, <<82118707, 12518510>>, <<95491230, 24929895>>, <<34755724, 47072421>>, <<74669855, 3125738>>,
       <<112365806, 31855392>>, <<96787727, 12646532>>, <<124765799, 9487560>>, <<7229665, 65463755>>, <<22411737, 54058222>>,
       <<30047174, 48048152>>, <<127599913, 6169745>>, <<120598756, 51684583>>, <<36357692, 11038581>>, <<9157802, 1613911>>,
       <<44708848, 16229676>>, <<111358707, 44317527>>, <<112227196, 55952799>>, <<83609307, 31498617>>, <<125947826, 16628637>>,
       <<103164335, 31481312>>, <<1632152, 62382080>>, <<23353353, 65026406>>, <<111196516, 10106682>>, <<102643830, 20153334>>,
       <<116597889, 26942012>>, <<79414029, 77998>>, <<122794195, 64927011>>, <<39114, 58203047>>, <<51021675, 28477486>>,
       <<5149374, 56270011>>, <<131892841, 13611141>>, <<116463591, 23924363>>, <<87705376, 39485626>>, <<73548410, 57364714>>,
       <<70272815, 54247879>>, <<78426679, 59385334>>, <<38060448, 29148540>>, <<14919053, 14634977>>, <<113865449, 35360927>>,
       <<111227834, 20793261>>, <<35760260, 59689579>>, <<57618696, 59725675>>, <<55467119, 18611504>>, <<101999393, 17180742>>,
       <<45552454, 8130903>>, <<90628601, 2342172>>, <<16213983, 2818294>>, <<123645117, 37078511>>, <<89189855, 54303935>>,
       <<50736106, 3671088>>, <<68363904, 38989230>>, <<92206205, 54610291>>, <<74854785, 45765614>>, <<17548969, 22164165>>,
       <<20981879, 7935817>>, <<13930927, 49145110>>, <<84858880, 66795795>>, <<134128067, 49276074>>, <<15663922, 782393>>,
       <<115428662, 107448>>, <<102875004, 41089072>>, <<34553662, 65558374>>, <<62902693, 30556020>>, <<11112642, 6810156>> >>,
    \* random.seed(19)
    <<
       <<90882290, 2902713>>, <<105349018, 60090014>>, <<69855785, 8099264>>, <<68651254, 13388038>>, <<52819328, 23298106>>,
       <<133790504, 35513938>>, <<38837905, 39238961>>, <<19899092, 39929747>>, <<35041373, 7225465>>, <<34955288, 27639894>>,
       <<43938456, 64961897>>, <<35958384, 56002955>>, <<14447724, 51895294>>, <<43687835, 60210169>>, <<41750447, 1534150>>,
       <<76402101, 41446671>>, <<27062445, 58998455>>, <<9500966, 61767023>>, <<27186073, 7643134>>, <<72805412, 30575266>>,
       <<52151883, 58122627>>, <<98444754, 4946031>>, <<107784826, 6609650>>, <<55624872, 1127603>>, <<13335660, 38862560>>,
       <<97709819, 28399120>>, <<101423389, 57230207>>, <<53158720, 29548123>>, <<88354093, 66384906>>, <<40137916, 38301484>>,
       <<122794923, 33708846>>, <<111911663, 10638047>>, <<106295477, 42753231>>, <<128032306, 27272577>>, <<31251429, 51988755>>,
       <<73182475, 38694907>>, <<98163791, 7228821>>, <<107572051, 13913439>>, <<52382509, 12852247>>, <<18594994, 9036502>>,
       <<84062886, 33104991>>, <<14044792, 36723011>>, <<94671797, 30740515>>, <<933470, 64221351>>, <<61001938, 60794557>>,
       <<64391554, 39871574>>, <<16079114, 34908349>>, <<64450469, 55337141>>, <<67117766, 33151909>>, <<49535941, 28742735>>,
       <<120295744, 36371873>>, <<116241970, 12314440>>, <<119525547, 192390>>, <<32867714, 6142549>>, <<3473871, 31271224>>,
       <<50547958, 30319886>>, <<15254941, 45352503>>, <<94654491, 43783997>>, <<35290903, 62774043>>, <<17231311, 31918499>>,
       <<38078626, 30148531>>, <<54146561, 19670649>>, <<98703663, 11478674>>, <<61879726, 29441559>>, <<40423352, 20690465>>,
       <<90915071, 51371975>>, <<6083645, 5186164>>, <<28079162, 20889567>>, <<92270673, 64760861>>, <<100938032, 28226102>>,
       <<13597453, 31069469>>, <<8921175, 31455119>>, <<67886841, 30281615>>, <<88107239, 64189582>>, <<2163014, 11755797>>,
       <<58623094, 43550672>>, <<36883015, 5058390>>, <<11422609, 8480728>>, <<22969905, 28864247>>, <<38364875, 59262948>>,
       <<62685042, 55810612>>, <<15062252, 13608841>>, <<83261088, 31518936>>, <<117944473, 66982973>>, <<91801755, 54413209>>,
       <<9123602, 28779391>>, <<87039635, 63487418>>, <<85076285, 10280935>>, <<1177040, 58930477>>, <<51633430, 41659725>>,
       <<87583622, 19446252>>, <<127525831, 42749915>>, <<124682048, 2638116>>, <<76441213, 36619104>>, <<79034266, 23930006>>,
       <<128643500, 16978480>>, <<28269826, 17735655>>, <<68336001, 21302807>>, <<8260258, 1648318>>, <<103964552, 18851731>>,
       <<87730822, 57410632>>, <<28264061, 4305912>>, <<26452023, 19721203>>, <<70293019, 31271353>>, <<100891724, 33749719>>,
       <<18238527, 66293562>>, <<43406650, 53965658>>, <<68821093, 53920695>>, <<35057559, 37723682>>, <<118712630, 48094766>>,
       <<97312742, 49520610>>, <<128231891, 20537453>>, <<86030465, 50068908>>, <<91439276, 35483801>>, <<38314814, 43351614>>,
       <<67741168, 38198192>>, <<57612883, 55432907>>, <<64217167, 62791403>>, <<8384518, 58498457>>, <<114041776, 15008065>>,
       <<20725806, 2631958>>, <<61516171, 57252794>>, <<124828083, 7768311>>, <<68847554, 39657870>>, <<116570478, 6777495>>,
       <<34964729, 48145395>>, <<62659869, 46700775>>, <<50902261, 46048005>>, <<43525163, 22119631>>, <<49581670, 12554631>>,
       <<59759649, 57713411>>, <<112979860, 22258116>>, <<130319657, 48331521>>, <<12697656, 42676309>>, <<89616123, 44240937>>,
       <<70979837, 30182284>>, <<55453520, 41433413>>, <<5470469, 58502055>>, <<48565592, 6286249>>, <<42547025, 29319730>>,
       <<49268320, 30729899>>, <<79654493, 49056230>>, <<49271718, 3016382>>, <<39698089, 17583231>>, <<36811932, 5927682>>,
       <<131167850, 15197448>>, <<52593687, 2131773>>, <<130577014, 11435098>>, <<22228786, 31534310>>, <<89108011, 47981445>>,
       <<74419827, 7172314>>, <<95279666, 40029146>>, <<69043987, 6108130>>, <<117288655, 2445394>>, <<78860900, 29256766>>,
       <<6260527, 48041472>>, <<91618770, 9399537>>, <<82297113, 21772141>>, <<32924203, 36361687>>, <<98066387, 36607076>>,
       <<112169541, 2233035>>, <<37198163, 12829691>>, <<19920459, 16763345>>, <<38806785, 8157400>>, <<79119724, 56630044>>,
       <<59610661, 8611234>>, <<9688920, 46627374>>, <<60351632, 20845339>>, <<73449343, 27220611>>, <<77675190, 15088627>>,
       <<47489562, 49585093>>, <<105398720, 6933115>>, <<90842703, 16172696>>, <<34681863, 9231462>>, <<46496240, 30888005>>,
       <<124195079, 37513706>>, <<29667768, 37255938>>, <<60057199, 59755371>>, <<40806796, 4005645>>, <<78283532, 56996161>>,
       <<106723115, 29405251>>, <<16572201, 65094591>>, <<25545839, 41253498>>, <<8559289, 33102879>>, <<16904086, 25942974>>,
       <<69886376, 18853758>>, <<65617023, 23507830>>, <<126903094, 64637364>>, <<60810155, 3335068>>, <<70523164, 28564502>>,
       <<3550659, 38670967>>, <<30253021, 44379239>>, <<41525945, 37363735>>, <<32714476, 6909528>>, <<105771170, 26823605>>,
       <<55968198, 42545069>>, <<18294316, 46186754>>, <<71690980, 15439308>>, <<20961117, 30706310>>, <<24976568, 48002269>>,
       <<81611492, 32042636>>, <<11541543, 18734075>>, <<101556468, 26958675>>, <<58895709, 39662658>>, <<8640477, 38766527>>,
       <<90471095, 66687737>>, <<129045583, 134998>>, <<99122456, 16241996>>, <<112929613, 56654993>>, <<126056211, 5632412>>,
       <<36436108, 16668082>>, <<65268886, 10989984>>, <<99486429, 34930862>>, <<53270605, 17636880>>, <<129762629, 31191656>>,
       <<56809798, 53983646>>, <<2918318, 9363694>>, <<12763999, 11599377>>, <<57315490, 54229442>>, <<2539128, 18043947>>,
       <<81854297, 52638128>>, <<133480661, 32867359>>, <<125222883, 40146080>>, <<132432818, 22329313>>, <<33423642, 20712559>>,
       <<24198852, 51944687>>, <<9472546, 36532559>>, <<124931182, 20427601>>, <<3490007, 8154908>>, <<9726791, 3270042>>,
       <<89556520, 52008086>>, <<127203095, 5909792>>, <<71691272, 30755815>>, <<8462337, 64995481>>, <<4727399, 6286532>>,
       <<109993629, 25568512>>, <<92392244, 33001514>>, <<41657888, 24996128>>, <<132082871, 22593509>>, <<37746458, 63423500>>,
       <<19926973, 8024181>>, <<129689988, 40869034>>, <<7470712, 2925203>>, <<48698209, 62287434>>, <<24143968, 7804723>>,
       <<85870050, 22546933>>, <<65606118, 23623412>>, <<33831146, 48092671>>, <<84254738, 31325543>>, <<14344034, 36219479>>,
       <<131972640, 42833018>>, <<105154064, 38624996>>, <<28018679, 2303622>>, <<79988689, 11487346>>, <<36442972, 50656287>>,
       <<77150950, 25924610>>, <<42307957, 1205053>>, <<28214612, 36104294>>, <<65865955, 54469163>>, <<9613040, 1685339>>,
       <<133263598, 48294596>>, <<105739424, 32574649>>, <<30525542, 44876396>>, <<80365245, 60171993>>, <<23732514, 12432692>>,
       <<22392544, 42640921>>, <<51439715, 11411288>>, <<96102447, 35879157>>, <<9281417, 52961173>>, <<125669123, 12583801>>,
       <<33725881, 6879624>>, <<22044291, 43408827>>, <<65446781, 35553187>>, <<121484639, 33928522>>, <<55784087, 13897093>>,
       <<72052508, 4863149>>, <<132458444, 40054161>>, <<70765413, 29341806>>, <<46583193, 40879845>>, <<25401149, 21303289>>,
       <<69998174, 10197357>>, <<84704789, 44108428>>, <<79482249, 63753687>>, <<25983547, 60917689>>, <<1656988, 55759486>>,
       <<129581157, 2788040>>, <<92466751, 17642884>>, <<113384338, 20632914>>, <<112960762, 46911339>>, <<57130900, 31423259>>,
       <<25057349, 46180764>>, <<129323263, 46728299>>, <<120321922, 35994500>>, <<8841168, 46528833>>, <<84539614, 27185427>>,
       <<67161549, 61974089>>, <<3255490, 57836706>>, <<76336631, 41612850>>, <<87302260, 45247346>>, <<59935660, 38977515>>,
       <<34247869, 34923313>>, <<118967310, 60030515>>, <<90132680, 37758684>>, <<37397899, 60701992>>, <<104433794, 30223230>>,
       <<122074736, 54721552>>, <<52087508, 50618916>>, <<76969379, 21166038>>, <<12631900, 32401100>>, <<17778785, 56660115>>,
       <<114121296, 36669111>>, <<128157867, 35994347>>, <<125013964, 26592353>>, <<19982530, 3194701>>, <<94205368, 50712780>>,
       <<52667727, 39940292>>, <<28864932, 15907653>>, <<119942484, 52474688>>, <<12818282, 49962956>>, <<10902789, 56632573>>,
       <<46901077, 44884890>>, <<19607580, 32154532>>, <<53252419, 24785656>>, <<84711140, 7287613>>, <<69175693, 39811855>>,
       <<123630581, 65965348>>, <<64806403, 2819325>>, <<19435056, 65567902>>, <<73639640, 57507280>>, <<3122436, 62852755>>,
       <<88542956, 32375281>>, <<21329147, 22390718>>, <<65398364, 59410823>>, <<58821322, 10124621>>, <<124802987, 18417563>>,
       <<17133884, 53452182>>, <<37902937, 55767014>>, <<44106708, 20523263>>, <<69765166, 32728577>>, <<51861340, 19531792>>,
       <<131725988, 41302892>>, <<124328728, 26901152>>, <<126670606, 25957666>>, <<89869065, 1318899>>, <<106811900, 15250804>>,
       <<73928884, 50174791>>, <<27104601, 24417677>>, <<22337162, 66647994>>, <<25433610, 878747>>, <<102981829, 8870581>>,
       <<89848095, 40973567>>, <<4601307, 49922742>>, <<39195870, 66724230>>, <<9966293, 23568002>>, <<70390504, 48668158>>,
       <<45842106, 63182296>>, <<64766649, 42903415>>, <<49648407, 35703160>>, <<54157320, 27269678>>, <<60923745, 32311494>>,
       <<105595184, 50696984>>, <<9217944, 4480667>>, <<101714118, 64219230>>, <<78544508, 23705915>>, <<106253802, 24401108>>,
       <<20961323, 13164377>>, <<38684513, 10154139>>, <<121769904, 24124603>>, <<128692483, 64875082>>, <<36669491, 34654463>>,
       <<50499787, 33137552>>, <<45205028, 12183946>>, <<44029294, 23700466>>, <<127242273, 38898111>>, <<67343457, 2253012>>,
       <<57097663, 31004721>>, <<121268452, 18555736>>, <<85234046, 34382965>>, <<125856914, 52431333>>, <<87190563, 5601749>>,
       <<59348079, 62731137>>, <<10561638, 21609288>>, <<66681519, 2305049>>, <<70010957, 8941602>>, <<82890434, 38968883>>,
       <<113694652, 14275495>>, <<49090319, 8949495>>, <<73763100, 41568687>>, <<110640712, 27141199>>, <<127461504, 29512864>>,
       <<110578183, 54789568>>, <<35367433, 63768439>>, <<110590036, 55168315>>, <<90396189, 64337688>>, <<42300400, 11852498>>,
       <<74263034, 57976907>>, <<106514703, 46810311>>, <<108397824, 35947799>>, <<32755756, 54862632>>, <<65559934, 54610250>>,
       <<89064286, 1854964>>, <<23026164, 63432044>>, <<102515511, 50264167>>, <<106012307, 31077944>>, <<78121301, 14120942>>,
       <<128250457, 59691551>>, <<42455541, 59463514>>, <<37466394, 50963062>>, <<130418583, 50538533>>, <<82632442, 20836087>>,
       <<865871, 24899299>>, <<58160890, 8636572>>, <<42572550, 64991248>>, <<111090932, 34913020>>, <<130561129, 59622306>>,
       <<18341677, 59333211>>, <<91002226, 11815153>>, <<114813284, 37683358>>, <<15432186, 66714390>>, <<59337501, 49444208>>,
       <<4470362, 18474941>>, <<47552715, 17054821>>, <<78190678, 20025541>>, <<95115601, 59104981>>, <<36802694, 17437529>>,
       <<88401647, 9379537>>, <<74320352, 4835966>>, <<48946419, 41439764>>, <<67879394, 24596609>>, <<107601159, 570706>>,
       <<105912202, 45245906>>, <<56156479, 20153162>>, <<106445895, 19366755>>, <<58993634, 12135410>>, <<63479614, 30828024>>,
       <<30435155, 22863607>>, <<66962544, 19422416>>, <<7674076, 34616488>>, <<113538008, 16006022>>, <<49659437, 8013986>>,
       <<48247712, 30198047>>, <<114943771, 4630337>>, <<92046809, 16421668>>, <<61074246, 30898954>>, <<115775097, 50193454>>,
       <<80171902, 10031759>>, <<115520976, 6764230>>, <<35290594, 60045581>>, <<105355026, 49554146>>, <<127199496, 28877527>>,
       <<53782353, 45895704>>, <<102037872, 48265022>>, <<130705813, 29145151>>, <<79326691, 11057398>>, <<101553330, 7579763>>,
       <<14832935, 22848033>>, <<15317896, 14126504>>, <<110578681, 23024674>>, <<103333856, 35384167>>, <<20707881, 52979209>>,
       <<106409414, 45503182>>, <<19264730, 41484657>>, <<114254208, 26013618>>, <<124821461, 54878887>>, <<71360359, 33151428>>,
       <<40051378, 22789217>>, <<102131693, 16210203>>, <<116398042, 45508365>>, <<20944723, 30806050>>, <<63325904, 33256841>>,
       <<87101180, 66172259>>, <<102279908, 66332976>>, <<1970475, 36016063>>, <<107842851, 7470414>>, <<83831460, 56189341>>,
       <<110467452, 43672289>>, <<17320086, 56905175>>, <<55533942, 66850314>>, <<83958017, 51419437>>, <<120481281, 65481661>>,
       <<55544172, 35097623>>, <<126129251, 3026529>>, <<71182830, 45660193>>, <<122911783, 6159015>>, <<131091655, 34341187>>,
       <<10685860, 37209930>>, <<27545344, 62685565>>, <<42276797, 36798505>>, <<71657133, 22112707>>, <<95716480, 65103130>>,
       <<79647064, 53700446>>, <<46313027, 63196896>>, <<23679890, 61694426>>, <<58172442, 60983098>>, <<133124299, 16127769>>,
       <<25983731, 44681905>>, <<23895919, 27187181>>, <<72400585, 29362319>>, <<23970422, 66998170>>, <<106710940, 41719445>>,
       <<64100006, 29552016>>, <<10355125, 29932981>>, <<63436462, 31411642>>, <<93982924, 66338262>>, <<78252913, 41524988>>,
       <<30378001, 50249771>>, <<126138445, 30032053>>, <<14551915, 43232674>>, <<3553933, 32800130>>, <<32718540, 44038702>>,
       <<118523357, 48300777>>, <<70567730, 10126863>>, <<88212669, 60073857>>, <<49470005, 24121847>>, <<48118477, 358859>>,
       <<58999584, 20091406>>, <<25146178, 32394453>>, <<79776714, 56421924>>, <<41968131, 56919320>>, <<127584646, 30702101>>,
       <<104520255, 47638949>>, <<25357003, 61084381>>, <<125349744, 20102646>>, <<16534884, 52533703>>, <<124253154, 15209117>>,
       <<59912614, 33379863>>, <<111699675, 66840100>>, <<70630088, 37516364>>, <<57217973, 23503425>>, <<48074871, 21026958>>,
       <<75748734, 9411633>>, <<71182245, 49882275>>, <<16389778, 41061359>>, <<64356512, 14920326>>, <<64615766, 24630545>>,
       <<112721271, 1548487>>, <<22273029, 38482489>>, <<25939464, 65221103>>, <<11471638, 53158074>>, <<52471066, 26611199>>,
       <<56036461, 355374>>, <<48125104, 12324005>>, <<11641602, 44269471>>, <<124015883, 57920101>>, <<7178301, 24319814>>,
       <<91603709, 54438414>>, <<29439167, 39627999>>, <<65172583, 60592400>>, <<53530701, 24436849>>, <<67848122, 56725967>>,
       <<13764798, 19942075>>, <<29075914, 22779449>>, <<12421439, 57166028>>, <<94456677, 57888331>>, <<3147757, 60584321>>,
       <<90285402, 29746922>>, <<36365202, 24981443>>, <<14388874, 7057084>>, <<112136911, 21289625>>, <<100110341, 20279002>>,
       <<18864546, 5894496>>, <<34077544, 63937717>>, <<100495611, 13212224>>, <<41427248, 65711271>>, <<99947096, 7525725>>,
       <<75438113, 7702569>>, <<73978022, 33451966>>, <<39378274, 37439783>>, <<71066411, 60807893>>, <<117595746, 49066402>>,
       <<11998239, 36856336>>, <<64912610, 265460>>, <<65717870, 1380360>>, <<1909415, 40337648>>, <<37905494, 7428676>>,
       <<26853735, 54148687>>, <<89997831, 52121486>>, <<91538795, 40095289>>, <<84663457, 20387644>>, <<55202308, 65189222>>,
       <<107354537, 46161506>>, <<110713518, 32550175>>, <<93526110, 6489997>>, <<7165064, 49452247>>, <<25458833, 63023221>>,
       <<110686646, 1030069>>, <<27598203, 36386647>>, <<80487168, 9604181>>, <<123465734, 52776175>>, <<41407992, 19032383>>,
       <<59721419, 63846165>>, <<49980057, 44402168>>, <<73779813, 19730297>>, <<47337049, 18017315>>, <<28047489, 60379892>>,
       <<127720352, 4349140>>, <<50818556, 31117199>>, <<126575055, 55633131>>, <<57696922, 47920173>>, <<18999155, 5632739>> >>,
    \* random.seed(20)
    <<
       <<121552899, 48506280>>, <<92107473, 52793151>>, <<102879130, 59053361>>, <<121415536, 10147214>>, <<34873449, 45232031>>,
       <<85325681, 56998251>>, <<121459755, 6812657>>, <<117055357, 21973232>>, <<76898794, 60762380>>, <<22733542, 1810600>>,
       <<55233690, 27295876>>, <<133390680, 5033712>>, <<13857685, 8393787>>, <<42834131, 31836813>>, <<127512090, 38967804>>,
       <<60317548, 27647632>>, <<28004874, 13409435>>, <<42534132, 41968109>>, <<121955038, 45722386>>, <<45039283, 22061447>>,
       <<57360871, 6222621>>, <<84246298, 34752298>>, <<108123797, 56481750>>, <<66050367, 27174593>>, <<10934179, 13847464>>,
       <<76934936, 16283454>>, <<4710660, 13543652>>, <<12686927, 5620465>>, <<25546672, 17006922>>, <<93071702, 51300045>>,
       <<38047024, 20472461>>, <<92643761, 17232406>>, <<21924391, 41873048>>, <<15797008, 60779676>>, <<3133276, 17955201>>,
       <<94728686, 15700766>>, <<115308146, 56449680>>, <<29483019, 38515864>>, <<31886021, 3758934>>, <<1742157, 53624596>>,
       <<86551435, 41451313>>, <<40365455, 18750088>>, <<18370689, 46625902>>, <<86821899, 22539038>>, <<80494874, 48405171>>,
       <<60047474, 60834498>>, <<20537095, 61903245>>, <<85720925, 18374582>>, <<74583356, 55888606>>, <<58102991, 10517980>>,
       <<22101846, 27231114>>, <<124666018, 47427609>>, <<115852791, 8122499>>, <<92583775, 8401235>>, <<133681170, 52329623>>,
       <<77894800, 28759481>>, <<46275245, 15033958>>, <<15616026, 60854624>>, <<81562194, 3478455>>, <<69724534, 12978616>>,
       <<58577596, 11564572>>, <<133229194, 11564605>>, <<112673440, 5435402>>, <<15412415, 52609344>>, <<118677149, 19695038>>,
       <<268408, 54359517>>, <<87438316, 53576797>>, <<42322436, 45115139>>, <<97950078, 26984189>>, <<127847232, 30695924>>,
       <<71182175, 50768230>>, <<102397162, 48685708>>, <<7296004, 56091144>>, <<89569508, 11012255>>, <<15776736, 62953415>>,
       <<61099085, 37398103>>, <<44765229, 850459>>, <<9811624, 38508729>>, <<100292684, 7288109>>, <<12517490, 22332532>>,
       <<34535764, 43130633>>, <<11531743, 64169115>>, <<88889556, 52422234>>, <<40400737, 44536399>>, <<5948670, 52856888>>,
       <<3643270, 13045997>>, <<29479041, 34435585>>, <<68000097, 47028492>>, <<1631201, 10506753>>, <<3192381, 62112239>>,
       <<89465802, 49978670>>, <<70772799, 60146530>>, <<18136946, 59855241>>, <<41888461, 58712304>>, <<16916149, 28117032>>,
       <<36915347, 7329805>>, <<52081767, 6619377>>, <<29259726, 16092956>>, <<26512721, 57657766>>, <<30386135, 6523700>>,
       <<40455715, 8413757>>, <<74493802, 26156159>>, <<118940850, 9359961>>, <<86968964, 5552762>>, <<60199160, 32707281>>,
       <<435060, 11996916>>, <<25308410, 54623492>>, <<85121716, 20890307>>, <<54367334, 63235290>>, <<113693932, 6375168>>,
       <<121980944, 55607049>>, <<39793189, 13893276>>, <<48921230, 41802560>>, <<40026516, 9652998>>, <<90792580, 48693026>>,
       <<13244278, 325759>>, <<37074231, 4147008>>, <<117912605, 26002048>>, <<50094782, 49357247>>, <<130182078, 18960185>>,
       <<53137133, 65767175>>, <<112329747, 60502259>>, <<62078322, 54371157>>, <<13337648, 4470097>>, <<77530803, 31494118>>,
       <<28360844, 64702269>>, <<123198718, 672593>>, <<94073776, 49086763>>, <<71037021, 4696822>>, <<123827008, 50408252>>,
       <<73426830, 41773948>>, <<129748279, 22871772>>, <<95942896, 1041473>>, <<24019667, 18629712>>, <<39461627, 40882021>>,
       <<113545354, 64852375>>, <<13406523, 163498>>, <<131740795, 66071526>>, <<5534738, 14181035>>, <<100624511, 13889346>>,
       <<82982657, 63689690>>, <<54504433, 46210913>>, <<80698452, 5248496>>, <<78149796, 56876662>>, <<48279804, 52988350>>,
       <<37978014, 29714729>>, <<6694881, 54362371>>, <<87918285, 9240702>>, <<118186486, 41793265>>, <<50459387, 60357081>>,
       <<115160349, 37747705>>, <<53326727, 26444654>>, <<34140352, 244700>>, <<107465029, 52272612>>, <<124346314, 30795017>>,
       <<12308348, 39054357>>, <<116945206, 33017881>>, <<42835064, 15447343>>, <<103944997, 13491482>>, <<39316786, 30238203>>,
       <<132907378, 59566786>>, <<45184717, 25513048>>, <<27724745, 41836047>>, <<7030872, 23366804>>, <<18104789, 65605528>>,
       <<12246529, 50239033>>, <<110058893, 24652923>>, <<2708750, 51039569>>, <<15830994, 32013090>>, <<32153472, 36362301>>,
       <<19016355, 19858698>>, <<104099137, 48879698>>, <<896618, 9376903>>, <<91449616, 24388892>>, <<46964220, 35591257>>,
       <<19683873, 1269583>>, <<30832465, 29032533>>, <<70655891, 30129781>>, <<33177888, 61982369>>, <<52500768, 65709880>>,
       <<52095134, 46344429>>, <<71948856, 56431486>>, <<94246596, 60985133>>, <<39005706, 33951181>>, <<81748909, 43553720>>,
       <<95953913, 66621101>>, <<39795784, 41651513>>, <<102563202, 51770745>>, <<11166085, 43904741>>, <<66217224, 18029488>>,
       <<47313902, 49586482>>, <<16863724, 31213192>>, <<88475471, 49374581>>, <<114332001, 15822331>>, <<65023274, 8696492>>,
       <<47449502, 57230270>>, <<121438612, 21991800>>, <<132967591, 60072003>>, <<84360778, 60592901>>, <<75329879, 9488547>>,
       <<85778511, 50049622>>, <<94371306, 48357655>>, <<91602202, 46072620>>, <<72329601, 61522126>>, <<100973665, 8269896>>,
       <<100195387, 17995167>>, <<86616645, 2616870>>, <<71010669, 12715601>>, <<49722763, 26221618>>, <<28712584, 36676063>>,
       <<68136971, 47285758>>, <<41211301, 54539681>>, <<63204010, 42293997>>, <<24068111, 62931597>>, <<121572741, 9158669>>,
       <<17292064, 18433898>>, <<118029160, 1692953>>, <<76073461, 44833038>>, <<122169787, 5153838>>, <<118340595, 52338588>>,
       <<22928658, 22797103>>, <<36858502, 16467187>>, <<133769186, 52255176>>, <<88789109, 21331066>>, <<11411941, 9797673>>,
       <<35426147, 17390457>>, <<12872340, 8883240>>, <<40832417, 67042841>>, <<10168038, 33237812>>, <<5295055, 33824290>>,
       <<5949672, 31916503>>, <<63422517, 26266917>>, <<95667106, 58408850>>, <<68242430, 49640094>>, <<90006254, 6393423>>,
       <<87761211, 60555151>>, <<18079283, 55102600>>, <<94608106, 20843418>>, <<67420235, 36902957>>, <<56221500, 62805876>>,
       <<129034695, 11479742>>, <<61148656, 29731395>>, <<92004200, 60334943>>, <<104342550, 34793768>>, <<64914775, 55945316>>,
       <<20572442, 11961771>>, <<25492760, 13505182>>, <<38871990, 7898733>>, <<25544318, 29933371>>, <<53820053, 31393270>>,
       <<9130993, 57139331>>, <<103226527, 57055459>>, <<103172407, 20574133>>, <<85416002, 35883662>>, <<15375947, 53581208>>,
       <<29180901, 48383060>>, <<120635386, 55552313>>, <<117348805, 13853571>>, <<97647652, 20497476>>, <<116650584, 66290011>>,
       <<27790260, 33998712>>, <<38777567, 66706757>>, <<58480873, 57301509>>, <<63530280, 6364262>>, <<48860803, 34802680>>,
       <<32857837, 50209709>>, <<109047668, 65352838>>, <<24665174, 37616075>>, <<76778549, 24970890>>, <<109287496, 19617446>>,
       <<20244678, 721359>>, <<44994433, 53866376>>, <<50693324, 9870346>>, <<38270490, 34350834>>, <<123005698, 58489771>>,
       <<117910276, 49058691>>, <<17271120, 34248489>>, <<8905652, 11982015>>, <<79847524, 55246505>>, <<67671132, 35018714>>,
       <<4933328, 7810996>>, <<116058418, 18791406>>, <<117594680, 28028148>>, <<75506338, 60937021>>, <<12031115, 35783229>>,
       <<25772309, 40463659>>, <<112341089, 59926953>>, <<91932578, 29657163>>, <<59653605, 27341524>>, <<125482824, 48069826>>,
       <<5828661, 48115484>>, <<91780640, 11770352>>, <<111604116, 11643280>>, <<110814642, 54145971>>, <<12829649, 33314657>>,
       <<94515281, 40158228>>, <<75679152, 50305116>>, <<84317269, 20019454>>, <<21240019, 16311989>>, <<129265226, 18472280>>,
       <<129948786, 15639683>>, <<15741773, 6309949>>, <<73915259, 46441055>>, <<71919064, 39748583>>, <<59810457, 28970716>>,
       <<45080685, 52584647>>, <<31902205, 36368467>>, <<98030249, 11232059>>, <<68484475, 3761232>>, <<60574829, 5933490>>,
       <<68061580, 1658212>>, <<38357600, 2067762>>, <<120572818, 17115651>>, <<103060155, 24037151>>, <<35279269, 62686839>>,
       <<41242856, 65159010>>, <<71577444, 26993249>>, <<85057309, 61306868>>, <<120872199, 58007981>>, <<124607008, 45570861>>,
       <<8467159, 45377379>>, <<116187056, 24395990>>, <<1858724, 4138948>>, <<77561037, 49691558>>, <<103563275, 56974092>>,
       <<23915908, 10577768>>, <<30702791, 42885693>>, <<9585322, 49232390>>, <<59239732, 28237788>>, <<111940498, 2857769>>,
       <<117838, 40382192>>, <<101407637, 14616046>>, <<52233304, 36257777>>, <<125635554, 63729319>>, <<75306698, 53960826>>,
       <<62035133, 6264618>>, <<38454783, 51208940>>, <<113847936, 57621711>>, <<62322029, 60100462>>, <<93605787, 57592538>>,
       <<88712866, 52178038>>, <<109905870, 35330924>>, <<39730186, 22045966>>, <<14061031, 29884757>>, <<25360445, 9988172>>,
       <<83461921, 42625633>>, <<15983811, 49894983>>, <<4621718, 57611463>>, <<47244792, 12552746>>, <<88990435, 13616097>>,
       <<24220978, 15138332>>, <<39296838, 30368>>, <<16655098, 3499117>>, <<131511950, 15052027>>, <<122090593, 28597554>>,
       <<132442263, 33999524>>, <<85308626, 40877511>>, <<50792638, 44934108>>, <<37088929, 40943173>>, <<45763869, 43198855>>,
       <<104763000, 40237833>>, <<72948974, 63731816>>, <<17631121, 21375941>>, <<118593282, 62811776>>, <<114992601, 3591564>>,
       <<1462471, 57429386>>, <<12442657, 34150493>>, <<67840695, 35342489>>, <<63754113, 11892549>>, <<110934486, 9949507>>,
       <<28231558, 36777993>>, <<131993557, 55154199>>, <<46802904, 8486875>>, <<19805588, 59339886>>, <<131478610, 67001758>>,
       <<102349689, 19552615>>, <<106431102, 6737241>>, <<22957304, 37125002>>, <<129440270, 60831466>>, <<40794844, 54664070>>,
       <<62595247, 13637563>>, <<117007826, 5678857>>, <<15974396, 10384203>>, <<3654574, 63765379>>, <<82854872, 10466985>>,
       <<68385553, 50422199>>, <<127253836, 23709681>>, <<130407599, 20668918>>, <<48983087, 64131796>>, <<100528035, 56101121>>,
       <<3127169, 17475434>>, <<96322049, 1772922>>, <<59830392, 101319>>, <<42766524, 52692408>>, <<38296255, 47176504>>,
       <<63092551, 54736150>>, <<60905255, 52514522>>, <<41702539, 3471041>>, <<3380864, 66103960>>, <<4491147, 5680364>>,
       <<2715347, 34185620>>, <<113891592, 20685597>>, <<56520755, 18804293>>, <<61698058, 41887538>>, <<123067758, 18843964>>,
       <<11394743, 54572880>>, <<109703989, 43142799>>, <<119428163, 65584273>>, <<57663082, 58075852>>, <<94759035, 4748546>>,
       <<3300755, 59549444>>, <<52863117, 51095007>>, <<2139531, 17378074>>, <<98841499, 1047543>>, <<130221042, 52178235>>,
       <<124434490, 45843450>>, <<70603641, 39384585>>, <<109570106, 4529098>>, <<90770113, 64357800>>, <<729265, 54901707>>,
       <<42257201, 48259380>>, <<13672321, 33190022>>, <<57762553, 7003684>>, <<44799330, 34631948>>, <<3505531, 49212373>>,
       <<1624325, 46014326>>, <<15731648, 61180774>>, <<75668347, 66711427>>, <<112459870, 44189478>>, <<85734041, 2323522>>,
       <<117820768, 41846705>>, <<30821974, 30320303>>, <<33425518, 23360255>>, <<49904513, 37618503>>, <<9381160, 47662515>>,
       <<70147377, 55435255>>, <<15737427, 48028969>>, <<8736824, 16452997>>, <<112743861, 55344412>>, <<33683831, 38847805>>,
       <<60385850, 56241189>>, <<62047330, 33533809>>, <<5911485, 60517434>>, <<5365726, 54380283>>, <<116150272, 54081332>>,
       <<122356988, 54254829>>, <<101547264, 43815045>>, <<61983397, 5543279>>, <<24394009, 60400137>>, <<21218675, 38951750>>,
       <<70111981, 41826769>>, <<29060382, 37549666>>, <<83391785, 53368681>>, <<133028907, 40572810>>, <<126361126, 38011729>>,
       <<32885989, 13487864>>, <<32010001, 19242151>>, <<5466628, 8786741>>, <<124064643, 23229157>>, <<129826935, 38912422>>,
       <<111624254, 49762388>>, <<97500253, 60200427>>, <<79961135, 30606575>>, <<123370453, 49259791>>, <<42165333, 29409135>>,
       <<66109565, 112946>>, <<123324815, 20077495>>, <<81420917, 7882786>>, <<48304007, 49479386>>, <<26503860, 57295054>>,
       <<38043597, 51587940>>, <<115624881, 9887219>>, <<80105701, 39123127>>, <<95647794, 55542087>>, <<113279017, 38433854>>,
       <<98194977, 66036582>>, <<71169711, 11949797>>, <<7891040, 58057763>>, <<105467230, 58621436>>, <<31455141, 17080237>>,
       <<24111772, 34861088>>, <<4558041, 52077733>>, <<67611478, 728729>>, <<84542286, 50696478>>, <<14381149, 12603361>>,
       <<14276528, 31941289>>, <<61488967, 63244931>>, <<69306739, 18320413>>, <<30463395, 66546677>>, <<121614778, 3937069>>,
       <<58435637, 64306509>>, <<33485200, 19084655>>, <<107447874, 65678933>>, <<104655746, 22260395>>, <<41647436, 16475069>>,
       <<46792299, 32977644>>, <<57319578, 45027950>>, <<8722480, 61013022>>, <<120917084, 13735432>>, <<27390655, 59484411>>,
       <<29153246, 63988983>>, <<96883769, 33417442>>, <<62814223, 55841473>>, <<87609375, 21848067>>, <<20061682, 30618240>>,
       <<88626568, 36024164>>, <<128904736, 26862467>>, <<130344414, 4325623>>, <<3380950, 50660875>>, <<19335147, 31783531>>,
       <<29245064, 38011102>>, <<78123287, 49795771>>, <<68651213, 3196560>>, <<64817736, 48082942>>, <<34488488, 160430>>,
       <<14646746, 34401052>>, <<62033436, 2747465>>, <<30243408, 7954919>>, <<89059085, 52691451>>, <<131518199, 1117970>>,
       <<18057739, 61989296>>, <<120114319, 4871837>>, <<124962417, 15032574>>, <<52078201, 35141946>>, <<3929770, 36833150>>,
       <<46045994, 13641585>>, <<34511698, 43034415>>, <<97088562, 37479861>>, <<131132595, 18655652>>, <<129063655, 21023441>>,
       <<29201058, 47446775>>, <<30564439, 58833628>>, <<55998006, 3223314>>, <<33981982, 64116330>>, <<87603385, 36249599>>,
       <<82742374, 49856344>>, <<1484978, 35188447>>, <<31795409, 46427968>>, <<59177878, 22762060>>, <<56515275, 21966859>>,
       <<99642280, 24862116>>, <<10815028, 65022831>>, <<11805488, 41836866>>, <<53144982, 31843337>>, <<24063425, 18041914>>,
       <<16797560, 4984261>>, <<130408738, 64615059>>, <<92285213, 10162827>>, <<5965378, 9171918>>, <<100419979, 15235212>>,
       <<15910017, 39806642>>, <<126276099, 1582453>>, <<28332705, 6098586>>, <<44314114, 16078344>>, <<6009927, 32759369>>,
       <<30776111, 61762755>>, <<18439714, 65558026>>, <<96389831, 56616229>>, <<127395635, 26445247>>, <<14657419, 30837460>>,
       <<33822532, 54041899>>, <<111835292, 58958036>>, <<75459990, 13654772>>, <<112453874, 3385856>>, <<42801862, 26456175>>,
       <<9491228, 28731918>>, <<59469365, 28566774>>, <<55882066, 36852918>>, <<16654751, 62351871>>, <<84818469, 54632294>>,
       <<98753677, 14845390>>, <<76172166, 55845583>>, <<92628388, 42639866>>, <<98928233, 33561027>>, <<116836318, 40531304>>,
       <<94859980, 16496589>>, <<42127598, 6399355>>, <<118065563, 59555735>>, <<118429957, 36238028>>, <<114087516, 1494028>>,
       <<123497662, 12701999>>, <<695454, 59550764>>, <<116324209, 33758243>>, <<113132909, 2850694>>, <<45289415, 61228664>>,
       <<22547529, 58234277>>, <<105435625, 55426798>>, <<115917037, 45009216>>, <<56260644, 23022703>>, <<6743127, 15529067>>,
       <<20372975, 17528620>>, <<40454971, 31764523>>, <<88767381, 41565954>>, <<105180047, 19071253>>, <<13733602, 21999253>>,
       <<9959569, 15354664>>, <<84774243, 39098088>>, <<60852642, 40610281>>, <<68166383, 14889799>>, <<123323009, 19256344>> >>,
    \* random.seed(21)
    <<
       <<22139144, 28051079>>, <<92578949, 28053523>>, <<85228249, 18874838>>, <<64303776, 56591468>>, <<28992954, 66419067>>,
       <<106385448, 31853037>>, <<108428368, 64640266>>, <<68780712, 12319932>>, <<67791247, 35403166>>, <<31682948, 52908864>>,
       <<426897, 947667>>, <<49801043, 62597680>>, <<78566024, 28735419>>, <<9296559, 9725557>>, <<106535458, 50420245>>,
       <<31172431, 61840483>>, <<31231787, 46568083>>, <<5682163, 29316904>>, <<133890398, 66798352>>, <<99144991, 51720899>>,
       <<117445816, 27297810>>, <<82663368, 29651398>>, <<4572805, 64207464>>, <<44148149, 36248809>>, <<66780341, 46567874>>,
       <<15543729, 43541317>>, <<127770460, 62942122>>, <<49452071, 1558546>>, <<20778656, 49729129>>, <<109724260, 5936711>>,
       <<16760720, 54265092>>, <<124546517, 1311945>>, <<60817756, 10811144>>, <<74088571, 48885993>>, <<46026134, 26933689>>,
       <<65055821, 10139987>>, <<25086469, 44634649>>, <<4984786, 31537274>>, <<116217195, 55038958>>, <<31523197, 5007887>>,
       <<104724637, 13245772>>, <<27992746, 45217573>>, <<130025973, 53882618>>, <<119986062, 44157338>>, <<101306527, 63706874>>,
       <<102380295, 60223005>>, <<77949053, 66358529>>, <<97946377, 4759818>>, <<16438701, 37589217>>, <<63931311, 37510002>>,
       <<111000488, 26038868>>, <<26988423, 22899633>>, <<123905437, 9808034>>, <<119126248, 35958476>>, <<54975808, 19594935>>,
       <<49019071, 64055970>>, <<60575363, 33651008>>, <<51778204, 21337387>>, <<133525530, 32511054>>, <<51887671, 17831136>>,
       <<3601821, 55976888>>, <<12517485, 10666533>>, <<96380752, 48049809>>, <<133254501, 65927197>>, <<66573438, 190051>>,
       <<65973329, 4705447>>, <<73877584, 40223580>>, <<100418485, 35042426>>, <<29800767, 38353952>>, <<81725361, 21383645>>,
       <<74690420, 65766359>>, <<83567007, 7563815>>, <<24250104, 44941212>>, <<22829341, 42043506>>, <<46735588, 55945881>>,
       <<124429713, 22305523>>, <<46521665, 51127030>>, <<80159735, 62391355>>, <<41153028, 16493037>>, <<13861098, 11320756>>,
       <<8810580, 61950190>>, <<109212407, 11678157>>, <<104289669, 28770598>>, <<50314945, 10729705>>, <<91717925, 2462718>>,
       <<90718001, 34873979>>, <<120621154, 44156306>>, <<128618180, 16210347>>, <<54628582, 61591428>>, <<132756047, 10944529>>,
       <<129040918, 49785433>>, <<79258091, 957158>>, <<118537024, 23260566>>, <<65889074, 33966071>>, <<50406829, 44757328>>,
       <<33179667, 62833187>>, <<117594138, 16500191>>, <<21782539, 37702883>>, <<9306006, 29476450>>, <<108083090, 27344435>>,
       <<103873330, 49755379>>, <<64850372, 3854125>>, <<112340078, 19326063>>, <<7002625, 57264475>>, <<34625034, 44186237>>,
       <<38906318, 2332802>>, <<56311227, 16682896>>, <<22901527, 26476143>>, <<9321590, 58410591>>, <<45376649, 43314441>>,
       <<120681226, 9805588>>, <<131996030, 10146780>>, <<100105987, 48886890>>, <<64286694, 3315319>>, <<33851697, 9367638>>,
       <<128698364, 43637561>>, <<70548569, 61166050>>, <<97792177, 32149616>>, <<3798284, 63943280>>, <<28466438, 60360323>>,
       <<112509862, 24543374>>, <<106732394, 10324134>>, <<118306592, 24746959>>, <<80712606, 51859268>>, <<57187824, 32511461>>,
       <<77999224, 60571706>>, <<113996760, 32000803>>, <<41336010, 9314381>>, <<71717202, 39487692>>, <<37041651, 9348988>>,
       <<103113545, 48369888>>, <<1373524, 25660141>>, <<91979239, 8447842>>, <<128040281, 48028983>>, <<3154205, 17744994>>,
       <<79683258, 21888875>>, <<86417278, 16761473>>, <<114310832, 64134308>>, <<78428812, 28259521>>, <<34520365, 45845146>>,
       <<54439557, 50441483>>, <<128676271, 54502471>>, <<121548492, 9295496>>, <<17923137, 9527244>>, <<12729092, 26639594>>,
       <<12608256, 12527907>>, <<3397990, 43066240>>, <<59975924, 52757306>>, <<18901340, 4824430>>, <<116411889, 7990816>>,
       <<87956000, 18880396>>, <<16982306, 20402838>>, <<72297535, 63222628>>, <<43523706, 26593987>>, <<66285674, 59589731>>,
       <<29475276, 41688095>>, <<22290940, 12185313>>, <<24688423, 57545451>>, <<50708896, 13530550>>, <<95291257, 49942304>>,
       <<73824584, 50805177>>, <<6198365, 40526908>>, <<95412167, 33881904>>, <<117288709, 50033827>>, <<103917919, 3803195>>,
       <<106129378, 62356920>>, <<1049964, 26014619>>, <<62260880, 58013124>>, <<8521674, 26705095>>, <<102531619, 38046866>>,
       <<23527984, 57340452>>, <<95494249, 15657663>>, <<33944461, 64693069>>, <<93513932, 40613397>>, <<42092998, 50050398>>,
       <<5625219, 16422280>>, <<52193384, 10480624>>, <<41528519, 48730639>>, <<120897203, 66470242>>, <<39597855, 54868355>>,
       <<67527788, 53893351>>, <<73730137, 32887319>>, <<127267536, 38452350>>, <<13228956, 36602396>>, <<80688951, 4029958>>,
       <<68211134, 39913946>>, <<98592667, 21738111>>, <<129803485, 34685133>>, <<41628595, 19570191>>, <<93878153, 41924707>>,
       <<70569890, 50855942>>, <<75252769, 12720653>>, <<8552883, 41369876>>, <<109345615, 21860175>>, <<131110279, 13510516>>,
       <<47677607, 4383209>>, <<42694430, 44154920>>, <<133307368, 28204053>>, <<14442656, 58248473>>, <<10215051, 43735715>>,
       <<9842436, 42046863>>, <<109297419, 54202060>>, <<101993863, 65598285>>, <<60137445, 33892880>>, <<83401706, 63555499>>,
       <<2654719, 45626923>>, <<86523021, 47355391>>, <<59409697, 31600229>>, <<69447796, 34427313>>, <<52264603, 58764832>>,
       <<53890277, 4721389>>, <<30264209, 1674273>>, <<6552503, 44392532>>, <<58239204, 2821256>>, <<33159418, 18494018>>,
       <<94513335, 39554470>>, <<109695639, 27151094>>, <<97141381, 28658484>>, <<61202229, 53527184>>, <<31734034, 26772355>>,
       <<51728451, 21978077>>, <<65335129, 15286312>>, <<84801916, 61382344>>, <<129268452, 43911648>>, <<11463033, 2511975>>,
       <<64385217, 11599611>>, <<66019675, 25033464>>, <<96257407, 40573412>>, <<119519019, 14489233>>, <<104624789, 30181557>>,
       <<84128697, 42452909>>, <<101807598, 41575185>>, <<89661292, 49059082>>, <<115280400, 40640542>>, <<93821677, 55046862>>,
       <<91667395, 17595431>>, <<32924446, 32292799>>, <<123034561, 33465810>>, <<51801680, 20532085>>, <<82504944, 25625485>>,
       <<110707444, 35180557>>, <<129346236, 47739801>>, <<132769341, 61008149>>, <<857047, 10862997>>, <<41958644, 13558420>>,
       <<41840045, 58764755>>, <<52509060, 48077943>>, <<19518147, 6086644>>, <<74255112, 11765429>>, <<10672558, 35056056>>,
       <<40614603, 41605281>>, <<126637689, 25194120>>, <<99637267, 49860220>>, <<62055427, 65968514>>, <<14524810, 66494030>>,
       <<128312372, 11169738>>, <<94482622, 29076496>>, <<27624503, 45544780>>, <<45002364, 24962829>>, <<86111046, 39035549>>,
       <<91486981, 12670957>>, <<35013294, 5502624>>, <<127673069, 1918695>>, <<43233120, 34539170>>, <<34123366, 63414927>>,
       <<113463834, 64907330>>, <<20589984, 60379245>>, <<91424180, 34027487>>, <<26827579, 15997738>>, <<80258051, 46181950>>,
       <<37233480, 48062612>>, <<50867888, 10547073>>, <<126262912, 26351543>>, <<62675071, 26956519>>, <<58637174, 30918296>>,
       <<82824735, 44678034>>, <<37665176, 44935483>>, <<23400414, 44806456>>, <<51624753, 41722315>>, <<36561147, 6640990>>,
       <<25294232, 65442833>>, <<128954589, 14441113>>, <<4613921, 23528294>>, <<108774497, 42242436>>, <<125459997, 58532676>>,
       <<94569677, 24675175>>, <<2548507, 5024991>>, <<67270198, 38924411>>, <<5270530, 26719515>>, <<81585861, 29610848>>,
       <<94007143, 30174643>>, <<32242764, 66492036>>, <<1020314, 63186682>>, <<73068745, 9924166>>, <<12686109, 65286167>>,
       <<41468261, 12770999>>, <<60948865, 24868744>>, <<120051579, 200970>>, <<49666490, 11153693>>, <<18112988, 38304624>>,
       <<106262071, 61202585>>, <<110373487, 29002049>>, <<71056950, 56424858>>, <<6598027, 20712746>>, <<25175736, 27993628>>,
       <<54085811, 59226204>>, <<74074575, 16396253>>, <<30215079, 38580126>>, <<107692785, 55283290>>, <<113211954, 39232691>>,
       <<124173084, 31389391>>, <<118588893, 53129858>>, <<2362984, 44205511>>, <<78124095, 4899748>>, <<10796655, 29245195>>,
       <<120752565, 55882660>>, <<100250879, 66378416>>, <<101908247, 44163136>>, <<25272324, 10207604>>, <<8005478, 33376985>>,
       <<109414703, 35336989>>, <<81405742, 35940418>>, <<83252876, 32976873>>, <<63231115, 45581990>>, <<107389362, 45373756>>,
       <<45364991, 10247962>>, <<36202379, 10299271>>, <<47395807, 19325514>>, <<39995282, 42947826>>, <<84168750, 620263>>,
       <<119473416, 54155086>>, <<9531476, 44840846>>, <<9077293, 12505557>>, <<68686683, 6586924>>, <<91000848, 55586982>>,
       <<25472193, 24172005>>, <<36219833, 23647226>>, <<7886675, 10878344>>, <<4985878, 39277452>>, <<66445633, 18471631>>,
       <<91369675, 52968050>>, <<87667427, 26808009>>, <<21231516, 2176979>>, <<13973269, 15614713>>, <<124938599, 24064532>>,
       <<72284059, 16806516>>, <<54816907, 13352701>>, <<92725909, 12987891>>, <<97685723, 64022266>>, <<70407938, 28418990>>,
       <<10510801, 21783293>>, <<111035077, 14701222>>, <<28684365, 33740503>>, <<5432838, 48837409>>, <<47281273, 40713431>>,
       <<71477690, 42480179>>, <<84319166, 43123019>>, <<23366523, 1412346>>, <<95244947, 24729243>>, <<66278382, 32110923>>,
       <<21744671, 57995145>>, <<114213295, 29627724>>, <<108278711, 1263375>>, <<121650575, 18761613>>, <<91198063, 3735321>>,
       <<29167315, 45696008>>, <<104378104, 43476915>>, <<121166378, 41338012>>, <<71572284, 40506368>>, <<121933032, 7498860>>,
       <<130214879, 20832664>>, <<52364494, 14102889>>, <<126410789, 31142177>>, <<125732101, 46759475>>, <<106551876, 24627034>>,
       <<1509320, 61284221>>, <<47233687, 11633395>>, <<82355308, 17794947>>, <<81495436, 1678178>>, <<101425150, 25243219>>,
       <<86820065, 50231230>>, <<21672679, 12235978>>, <<124929663, 65397050>>, <<71971126, 33588318>>, <<118338493, 27685649>>,
       <<27760300, 15188120>>, <<133957399, 34538367>>, <<74471964, 19190384>>, <<104096365, 30197973>>, <<99315999, 51479916>>,
       <<118485693, 64091539>>, <<48635009, 61078840>>, <<11115520, 16097463>>, <<54435238, 40223010>>, <<23926445, 23614943>>,
       <<72456846, 45088299>>, <<109384046, 58154889>>, <<48616269, 38447003>>, <<17589736, 66716705>>, <<3623720, 61182248>>,
       <<56767437, 64063411>>, <<77904071, 50678755>>, <<3529244, 66055253>>, <<89313791, 49664733>>, <<28302351, 49777651>>,
       <<14366899, 14272453>>, <<124513590, 35735709>>, <<70200036, 24855272>>, <<120134939, 66524563>>, <<68979273, 19870961>>,
       <<16488296, 10810276>>, <<32218549, 44439556>>, <<56943133, 41178747>>, <<86015914, 31175829>>, <<103465448, 33198828>>,
       <<100848528, 12801176>>, <<87346055, 14240446>>, <<33950600, 12374333>>, <<57731007, 55504746>>, <<50739669, 14915764>>,
       <<65710039, 32024394>>, <<35633079, 2718218>>, <<72184791, 57629332>>, <<61576661, 13811784>>, <<4771696, 52960612>>,
       <<110447267, 22555340>>, <<78710816, 29548475>>, <<107743593, 20261051>>, <<98857203, 9352442>>, <<98090960, 14693356>>,
       <<133339629, 10637673>>, <<50583029, 9549280>>, <<52829680, 2197693>>, <<502703, 52181515>>, <<89166940, 58158344>>,
       <<78045460, 19904909>>, <<77368083, 55862874>>, <<133902228, 30726764>>, <<26431355, 32615473>>, <<30503565, 58375996>>,
       <<98535019, 37133735>>, <<109035404, 51346609>>, <<64804909, 45153772>>, <<7375921, 1817838>>, <<49717392, 61498314>>,
       <<110912941, 8873606>>, <<67086624, 22399530>>, <<61940662, 23777348>>, <<52271347, 37756164>>, <<84352523, 30060705>>,
       <<80327998, 48224878>>, <<93017521, 4746436>>, <<116134991, 17211563>>, <<100837053, 7017458>>, <<50320259, 44017235>>,
       <<33607163, 49275140>>, <<104943658, 30788847>>, <<106423830, 8383320>>, <<124574765, 60020001>>, <<26681104, 39955767>>,
       <<113775413, 22360268>>, <<119534010, 56955810>>, <<10364435, 50062437>>, <<41335919, 16690718>>, <<85050029, 8716387>>,
       <<19617278, 50446387>>, <<111556361, 62759560>>, <<35546361, 6994164>>, <<91583662, 41410419>>, <<39702250, 43350757>>,
       <<29287220, 34491281>>, <<27778119, 8986602>>, <<66782216, 51753224>>, <<95703912, 33233841>>, <<29241209, 2158316>>,
       <<92128118, 60428082>>, <<44976838, 61834458>>, <<87142338, 35070404>>, <<49417197, 615458>>, <<25938452, 56557568>>,
       <<18928933, 19040596>>, <<7750875, 17612605>>, <<93462063, 55357947>>, <<55521526, 4055832>>, <<16541481, 50744632>>,
       <<118186448, 40390245>>, <<87885376, 34290697>>, <<2839506, 66866574>>, <<97273611, 15601324>>, <<79812293, 47272058>>,
       <<59559433, 32743905>>, <<67193214, 36072826>>, <<129146411, 36828529>>, <<50183828, 29025669>>, <<85391176, 1429237>>,
       <<85325589, 63826469>>, <<49087323, 9571674>>, <<46489967, 26966034>>, <<101331070, 29776335>>, <<85330308, 43481772>>,
       <<61326425, 48250215>>, <<68958316, 39340142>>, <<29997971, 29468554>>, <<105952474, 15600919>>, <<2667783, 57191849>>,
       <<86327034, 60240671>>, <<61062068, 56610468>>, <<29713660, 51988484>>, <<78758861, 60545852>>, <<78253240, 50274136>>,
       <<11647373, 23142527>>, <<65781511, 10361241>>, <<22155723, 904154>>, <<107253048, 18194073>>, <<43880946, 46463876>>,
       <<44070322, 20083553>>, <<28909637, 64730218>>, <<6459612, 30653891>>, <<25054022, 13546851>>, <<20358003, 694060>>,
       <<83775588, 10607646>>, <<113728957, 10275026>>, <<29664279, 36965125>>, <<14999661, 11187336>>, <<71734387, 43176219>>,
       <<15516431, 42179572>>, <<54389411, 8206462>>, <<102122198, 8317716>>, <<27267248, 47005411>>, <<93904193, 13974311>>,
       <<72303518, 1206779>>, <<11406788, 52339472>>, <<32553069, 14735502>>, <<80449233, 38119535>>, <<12919123, 16424852>>,
       <<27336589, 28980430>>, <<77407510, 52922057>>, <<109802819, 62312359>>, <<69849651, 46873585>>, <<89055002, 54527210>>,
       <<1217370, 26822221>>, <<40614802, 64394862>>, <<42700095, 54121616>>, <<122597526, 46106029>>, <<47985094, 59357095>>,
       <<105334877, 28033623>>, <<4606152, 38725111>>, <<66897288, 3114467>>, <<119648290, 27116283>>, <<103523341, 54124805>>,
       <<77801507, 32357032>>, <<24446439, 2546581>>, <<124316012, 42987626>>, <<10709223, 52277848>>, <<129480294, 17240895>>,
       <<104183129, 31659094>>, <<96597370, 17569306>>, <<71220165, 55363332>>, <<22008733, 19401741>>, <<45749314, 24903063>>,
       <<89113971, 32949109>>, <<88044452, 17723113>>, <<52252724, 61501437>>, <<107536278, 19664438>>, <<7169189, 7747048>>,
       <<38555208, 39250147>>, <<12138797, 32664817>>, <<43596276, 55070203>>, <<106425804, 9260617>>, <<101126520, 48397219>>,
       <<20048300, 20923788>>, <<41391612, 26203880>>, <<15048648, 18097476>>, <<88839892, 45445032>>, <<59402424, 60839136>>,
       <<31082373, 3293161>>, <<50220688, 50045992>>, <<116125966, 55526175>>, <<57061118, 34403957>>, <<92724404, 7134186>>,
       <<84249502, 65245291>>, <<63567307, 14627133>>, <<74679849, 59270273>>, <<48831956, 48697642>>, <<26624273, 3135546>>,
       <<66360262, 42020242>>, <<40869633, 40817942>>, <<44303234, 29184643>>, <<25037544, 51702163>>, <<122588808, 1256490>>,
       <<57111655, 33739596>>, <<26876971, 10920300>>, <<4258394, 14606913>>, <<28753956, 11098069>>, <<116564505, 64673101>>,
       <<45214582, 881714>>, <<89530747, 51909343>>, <<30938278, 57057089>>, <<87323698, 64695794>>, <<60430169, 16689388>> >>,
    \* random.seed(22)
    <<
       <<128608685, 60892128>>, <<18839953, 16281755>>, <<3169705, 41143563>>, <<134033937, 30006617>>, <<24730105, 47107329>>,
       <<16185592, 49633266>>, <<87432278, 58963552>>, <<46391664, 53188926>>, <<119393506, 5345721>>, <<31103816, 18070127>>,
       <<128779905, 3332714>>, <<42876099, 65505322>>, <<80683952, 12021576>>, <<125102680, 37043976>>, <<91974089, 49199413>>,
       <<123996936, 28857549>>, <<95041583, 59296399>>, <<6501551, 38731502>>, <<118295128, 1430664>>, <<79128842, 17714894>>,
       <<41698925, 28287635>>, <<25519194, 12115238>>, <<114059363, 7487184>>, <<78225298, 35624237>>, <<125894739, 48914628>>,
       <<103878097, 65970848>>, <<129009012, 63769077>>, <<76009233, 4105177>>, <<93735689, 21906599>>, <<82184819, 22468931>>,
       <<34683325, 12378327>>, <<128408385, 26385741>>, <<41939331, 60447107>>, <<104838754, 58432426>>, <<128128851, 64160535>>,
       <<87359103, 34580619>>, <<19088900, 18758664>>, <<110759953, 18159911>>, <<89590435, 46431771>>, <<24834087, 28984970>>,
       <<6593460, 22979298>>, <<71379211, 60480174>>, <<4330445, 28144544>>, <<124162256, 16883560>>, <<67951709, 19077368>>,
       <<69432393, 59206015>>, <<54954391, 26660361>>, <<88717895, 62039835>>, <<123005656, 12405607>>, <<41245953, 37800535>>,
       <<50167697, 26656550>>, <<78194425, 1691354>>, <<39905415, 38623346>>, <<79944707, 37668414>>, <<72896401, 35375429>>,
       <<58179605, 50838073>>, <<90360436, 60344878>>, <<70899268, 28678459>>, <<11825851, 6077946>>, <<133745838, 29778616>>,
       <<47741203, 6614994>>, <<57949757, 52427293>>, <<54063325, 3896269>>, <<124755940, 56450770>>, <<127796320, 13216870>>,
       <<68718600, 16021840>>, <<53775549, 453509>>, <<12960848, 30801611>>, <<120192029, 12981777>>, <<23004368, 2023518>>,
       <<73366903, 25250081>>, <<46860613, 12002855>>, <<44062075, 61053933>>, <<47943666, 42247907>>, <<25670527, 29768477>>,
       <<4962733, 4215681>>, <<71867218, 9032432>>, <<106824867, 52267206>>, <<86849286, 49596295>>, <<27045875, 43995080>>,
       <<93100656, 6777914>>, <<6991681, 13089848>>, <<55129480, 8186780>>, <<111145801, 9903112>>, <<123616553, 39398136>>,
       <<61817456, 2900417>>, <<113619763, 8057457>>, <<66911784, 47488550>>, <<70324116, 9097912>>, <<78456054, 19072644>>,
       <<133047927, 45892678>>, <<99814804, 57602383>>, <<63490036, 31955388>>, <<97610379, 4420054>>, <<86337931, 47921516>>,
       <<47482645, 64072147>>, <<105250109, 7433976>>, <<110031048, 54204765>>, <<81659118, 17373133>>, <<126530787, 8018296>>,
       <<2441349, 12538018>>, <<67110003, 23504780>>, <<85171459, 4298276>>, <<45711040, 6526378>>, <<23002071, 42212526>>,
       <<92889143, 40056782>>, <<58304081, 46972398>>, <<36104124, 11899663>>, <<5619308, 5129556>>, <<129806582, 12789276>>,
       <<47282090, 45555843>>, <<15849946, 66648049>>, <<29037605, 35864129>>, <<34218563, 32657577>>, <<116258911, 4565502>>,
       <<24246899, 1564777>>, <<37093139, 50501556>>, <<13066657, 38984995>>, <<63077049, 41503054>>, <<27878815, 27029005>>,
       <<46188531, 7888296>>, <<98637255, 60946270>>, <<124159472, 35216814>>, <<111958023, 12107361>>, <<5138117, 15951707>>,
       <<50701352, 56446847>>, <<113943169, 41915461>>, <<4425480, 13769708>>, <<27273686, 50582133>>, <<65765534, 42615931>>,
       <<51329025, 3297440>>, <<100702211, 46226374>>, <<96386507, 28144140>>, <<62338994, 17035989>>, <<33422635, 59679615>>,
       <<30969290, 7553432>>, <<35738772, 61906367>>, <<8751793, 62464776>>, <<89356262, 37988738>>, <<21178645, 11966664>>,
       <<119374244, 64539027>>, <<86698248, 21396871>>, <<7622077, 2011859>>, <<66942257, 10627215>>, <<81022619, 18791601>>,
       <<5671338, 56847646>>, <<65327941, 47004896>>, <<4005850, 18594186>>, <<102847845, 51576189>>, <<546122, 14450752>>,
       <<84824462, 54463089>>, <<132277908, 30397400>>, <<113599001, 44374214>>, <<31315652, 29732739>>, <<71745629, 28843356>>,
       <<18769773, 23835584>>, <<45941390, 17383127>>, <<115945701, 65172433>>, <<109754332, 46250311>>, <<1221242, 47170813>>,
       <<50987004, 40825349>>, <<85930810, 7195017>>, <<23552898, 56778740>>, <<107726479, 64050751>>, <<119866230, 41678637>>,
       <<74007447, 43438289>>, <<48596096, 18713828>>, <<113884205, 56670955>>, <<68830909, 17655826>>, <<25279574, 17397890>>,
       <<37281272, 35260214>>, <<21357793, 23347541>>, <<112571124, 53289499>>, <<68432720, 33271267>>, <<93504628, 33546196>>,
       <<109704020, 9112517>>, <<130698249, 36169348>>, <<25568196, 33496035>>, <<54455369, 23037360>>, <<117333509, 58752743>>,
       <<102231786, 5207676>>, <<51906769, 44695136>>, <<88015959, 35324352>>, <<26170751, 47444518>>, <<21709568, 5750191>>,
       <<6792505, 61803591>>, <<50963210, 22700475>>, <<31668108, 3645397>>, <<69481507, 35193219>>, <<130124881, 57055135>>,
       <<20517403, 13210843>>, <<74851387, 24294236>>, <<116052215, 63934805>>, <<80316310, 41348>>, <<70758707, 21544701>>,
       <<103051956, 51424378>>, <<2929497, 7610886>>, <<127313859, 34005632>>, <<92136113, 3452743>>, <<108266379, 42435073>>,
       <<110758782, 4370622>>, <<13230476, 38283668>>, <<8940102, 61830943>>, <<23939557, 17291814>>, <<67750603, 20343277>>,
       <<125942592, 20978770>>, <<122044783, 61246140>>, <<55294259, 38588039>>, <<83539017, 35271236>>, <<99298459, 36844691>>,
       <<44613154, 21623707>>, <<130257946, 45374443>>, <<126405058, 53214032>>, <<97570518, 3506225>>, <<120988021, 15724857>>,
       <<107485181, 34356288>>, <<87539269, 63926460>>, <<43129228, 45573882>>, <<37765268, 228381>>, <<32007953, 16272244>>,
       <<7700285, 7912744>>, <<124266715, 21113959>>, <<40043094, 59659308>>, <<3204592, 62866700>>, <<42426190, 7565752>>,
       <<13847090, 60867922>>, <<59747029, 55338450>>, <<44590340, 61661594>>, <<23552534, 10725105>>, <<63988532, 19092426>>,
       <<55679963, 26447217>>, <<47519824, 9379867>>, <<109154399, 27080796>>, <<41175408, 15756232>>, <<72643323, 15259310>>,
       <<117835634, 41683739>>, <<128722682, 61180082>>, <<50298450, 60637014>>, <<5434405, 31157651>>, <<127569908, 18787643>>,
       <<69007617, 36430814>>, <<29204960, 6231192>>, <<17205213, 55202018>>, <<32078521, 50432507>>, <<41672290, 37326162>>,
       <<18620768, 29846729>>, <<6578851, 17259071>>, <<133467725, 16375310>>, <<110092669, 10252206>>, <<15209586, 37532253>>,
       <<64522690, 21906271>>, <<107560363, 11170772>>, <<67711247, 25284639>>, <<9289219, 45282094>>, <<45586711, 13830829>>,
       <<51093581, 8873098>>, <<122743506, 44763910>>, <<78234129, 60078881>>, <<61603332, 29119510>>, <<84646610, 36149500>>,
       <<6527182, 26482538>>, <<92099087, 30798823>>, <<108447632, 57207980>>, <<90022784, 29543871>>, <<48435967, 14004451>>,
       <<38383177, 46154530>>, <<1362485, 62827737>>, <<11009142, 7740514>>, <<20745846, 56591094>>, <<60836889, 50578842>>,
       <<104459540, 5342272>>, <<29143112, 37808980>>, <<63397690, 53102601>>, <<85347969, 17943996>>, <<84488043, 8400036>>,
       <<2755477, 51146101>>, <<123554996, 10842655>>, <<78553971, 52870893>>, <<40701136, 36080667>>, <<32120422, 39347201>>,
       <<92471805, 13313534>>, <<125194573, 53183074>>, <<45276269, 49547827>>, <<53428318, 30133520>>, <<74774658, 48056856>>,
       <<23480513, 52067729>>, <<54476287, 44797187>>, <<123156025, 30279449>>, <<74675779, 53624568>>, <<110465552, 28535811>>,
       <<35146124, 52178075>>, <<116595514, 13969215>>, <<105046301, 16395368>>, <<30257118, 43179084>>, <<71134770, 18152788>>,
       <<91523935, 19534935>>, <<76888937, 3092566>>, <<80791572, 62225847>>, <<32220086, 40992721>>, <<74345108, 16203361>>,
       <<47587832, 30892672>>, <<107100089, 54169039>>, <<50024442, 65919659>>, <<131461491, 8278881>>, <<77914220, 50226472>>,
       <<30568717, 23374049>>, <<55797280, 25113033>>, <<17190218, 64784510>>, <<98835518, 9270202>>, <<6165616, 36938152>>,
       <<81192807, 33821864>>, <<41340631, 43710705>>, <<104293022, 7295776>>, <<17019302, 54146796>>, <<91326075, 34153846>>,
       <<95829677, 61601794>>, <<31290156, 26579626>>, <<17481762, 6855823>>, <<50000893, 33893795>>, <<87106873, 49764424>>,
       <<35020559, 847850>>, <<1180005, 11118936>>, <<59247652, 66824900>>, <<108541814, 22517584>>, <<21181003, 32451484>>,
       <<126260454, 10977022>>, <<68213372, 40136031>>, <<21548357, 47383180>>, <<13429852, 17539770>>, <<49767204, 8123354>>,
       <<63940843, 11406726>>, <<23578870, 47955405>>, <<11287816, 46645418>>, <<67278096, 44878280>>, <<34093519, 46041425>>,
       <<59638509, 36096544>>, <<60499439, 21855260>>, <<93593498, 52629273>>, <<77520929, 21611082>>, <<30643516, 56859215>>,
       <<24117860, 49937919>>, <<115249024, 42786536>>, <<6777745, 41216400>>, <<16528409, 24374220>>, <<9381642, 670908>>,
       <<110903106, 35556407>>, <<72608271, 64737356>>, <<123983634, 27702552>>, <<84056748, 64047332>>, <<45017446, 63912391>>,
       <<57778084, 51454284>>, <<98296830, 6330890>>, <<31034090, 57416870>>, <<107781863, 65078587>>, <<54694930, 17701537>>,
       <<5659083, 38211034>>, <<46126998, 41210716>>, <<75201010, 18349817>>, <<19673405, 48668366>>, <<121523372, 22011640>>,
       <<124305536, 26740174>>, <<68629857, 6483709>>, <<121411257, 2018102>>, <<92602675, 23516261>>, <<72214275, 4898227>>,
       <<21221631, 29749349>>, <<127885590, 54662880>>, <<123427819, 847955>>, <<60663992, 44180282>>, <<51655649, 28478733>>,
       <<9883963, 24195542>>, <<83104953, 1852734>>, <<114741643, 32264538>>, <<52194198, 14274617>>, <<38757222, 7368717>>,
       <<82265138, 37719502>>, <<106482117, 60645196>>, <<22777546, 62678613>>, <<37896437, 67073531>>, <<86207188, 7359813>>,
       <<5546167, 31146062>>, <<109629897, 13567011>>, <<42351553, 27096021>>, <<111684628, 12200950>>, <<61050698, 15911979>>,
       <<22220336, 4318964>>, <<2603424, 66593617>>, <<15204566, 12949814>>, <<34938335, 28308603>>, <<101680360, 43376115>>,
       <<106570816, 32711014>>, <<84721795, 18801856>>, <<41223548, 40794421>>, <<89123455, 24002384>>, <<98314722, 18097703>>,
       <<49306753, 20831303>>, <<10945908, 37449301>>, <<62936049, 65361106>>, <<29795140, 9517311>>, <<25320243, 28320644>>,
       <<52420961, 10192081>>, <<10026136, 54407939>>, <<120518469, 51947750>>, <<37682241, 50625024>>, <<120585436, 24334788>>,
       <<98968102, 61557151>>, <<1449946, 54465269>>, <<120695697, 61596318>>, <<108638392, 30860376>>, <<70518400, 41134648>>,
       <<118686352, 34289189>>, <<64204778, 12720932>>, <<3373596, 14210958>>, <<20124140, 49275065>>, <<41683212, 2981200>>,
       <<115160680, 1907142>>, <<111330221, 33049804>>, <<15830298, 36719864>>, <<46961760, 14921263>>, <<14971465, 42823220>>,
       <<30657713, 64106259>>, <<47263175, 64754386>>, <<55624266, 11438967>>, <<20119592, 17379549>>, <<88263104, 61190984>>,
       <<32498369, 52431992>>, <<119463133, 41310102>>, <<64616178, 46058888>>, <<57661632, 7715022>>, <<102784526, 58160400>>,
       <<46297716, 9135579>>, <<34468131, 9027762>>, <<16450380, 51893939>>, <<39559976, 65107012>>, <<31483234, 61315317>>,
       <<98676957, 45794095>>, <<47638889, 23374756>>, <<94869730, 66656798>>, <<36984089, 41290331>>, <<9376176, 44876349>>,
       <<40917857, 45364718>>, <<52701384, 37272331>>, <<122154979, 14984163>>, <<26750687, 42609431>>, <<28406746, 8933587>>,
       <<20933515, 21432597>>, <<33988231, 8879187>>, <<128894507, 4672695>>, <<125073425, 45225755>>, <<30544679, 61599491>>,
       <<6688913, 39151192>>, <<65295421, 55997295>>, <<78469040, 19682173>>, <<14983851, 8038840>>, <<56120649, 6186923>>,
       <<103165521, 60814239>>, <<179628, 49761589>>, <<96448332, 1398381>>, <<91927060, 42560341>>, <<105554492, 41351577>>,
       <<65344126, 50340704>>, <<62271036, 27675485>>, <<69596733, 45453137>>, <<18294400, 50842951>>, <<68974359, 51346333>>,
       <<32140235, 11728882>>, <<43082669, 17725488>>, <<6009094, 21392024>>, <<21272331, 5750105>>, <<7415720, 50740117>>,
       <<72612422, 29682127>>, <<31715843, 53819694>>, <<74575115, 33957770>>, <<67589349, 24499554>>, <<31272805, 65293228>>,
       <<17058497, 18403809>>, <<79992911, 21562863>>, <<90810961, 65354779>>, <<92655210, 3053964>>, <<68141776, 4301923>>,
       <<77847319, 45544173>>, <<3288714, 2011057>>, <<41119458, 63426655>>, <<107456442, 34945387>>, <<50626562, 25932097>>,
       <<13962292, 23800208>>, <<56490616, 34587984>>, <<111939769, 33659764>>, <<13169210, 24619667>>, <<15008293, 63605548>>,
       <<66881708, 40823338>>, <<117100514, 23954113>>, <<52402599, 14236764>>, <<33288899, 40328143>>, <<103072767, 9297105>>,
       <<12657739, 66558477>>, <<39648683, 3751704>>, <<80312195, 48738831>>, <<114007122, 55061978>>, <<115571398, 25776318>>,
       <<43722074, 54708270>>, <<35737699, 55989849>>, <<48771966, 48509013>>, <<16310715, 64422056>>, <<36593303, 22702814>>,
       <<102888586, 59285455>>, <<131393575, 24590323>>, <<36266242, 55324506>>, <<9717329, 18853072>>, <<99247111, 23226397>>,
       <<129674456, 21028098>>, <<106589348, 19310003>>, <<55387498, 36893705>>, <<99865156, 11552480>>, <<102077047, 54310508>>,
       <<99856840, 6566939>>, <<66144379, 10580199>>, <<134078516, 15961946>>, <<104792583, 11597853>>, <<31549730, 47550902>>,
       <<57811405, 43950789>>, <<11964989, 54788852>>, <<50287235, 31346783>>, <<109695522, 43560146>>, <<65263400, 29893719>>,
       <<70362392, 65235849>>, <<104556892, 30379546>>, <<11707361, 53634432>>, <<47473060, 64119556>>, <<64880266, 7597770>>,
       <<66286023, 20011298>>, <<91907418, 18670064>>, <<125756422, 9507710>>, <<107574403, 59833186>>, <<73217913, 40892683>>,
       <<91795449, 29556647>>, <<72277031, 20438522>>, <<132371549, 29697462>>, <<80063454, 57135742>>, <<79732546, 64320584>>,
       <<53140998, 27256018>>, <<56276978, 16280467>>, <<102545086, 31949091>>, <<50049905, 33394514>>, <<121304325, 8336132>>,
       <<97683210, 32452863>>, <<128195061, 20709146>>, <<94844501, 59110476>>, <<76503265, 7296387>>, <<49236141, 64749682>>,
       <<2418898, 48750845>>, <<88785632, 23246032>>, <<100844475, 50748122>>, <<97062108, 57586324>>, <<101886577, 60179124>>,
       <<4804873, 32467420>>, <<91815828, 63605648>>, <<37553009, 52551933>>, <<52152696, 685580>>, <<116571493, 16721304>>,
       <<54351718, 23314235>>, <<62668022, 14397786>>, <<6805915, 25623862>>, <<24355068, 66045341>>, <<28211373, 23961185>>,
       <<28871511, 3484911>>, <<70140949, 17656027>>, <<6383481, 24245269>>, <<11952409, 1772932>>, <<11569373, 50724089>>,
       <<98453597, 28188941>>, <<130248600, 39848095>>, <<100668518, 49944300>>, <<69107248, 45296092>>, <<17518480, 38268030>>,
       <<105222000, 53991521>>, <<17382313, 34233969>>, <<10303647, 39217427>>, <<68649090, 8120246>>, <<115747314, 36199526>>,
       <<41696533, 2563272>>, <<115877846, 26248635>>, <<44581513, 12714068>>, <<129709742, 6222652>>, <<99141002, 3087632>>,
       <<116086885, 5601142>>, <<132139331, 47745345>>, <<109638991, 52705519>>, <<26337658, 35967049>>, <<69250821, 11717030>>,
       <<73109232, 33572630>>, <<96954688, 46460275>>, <<30825917, 6433408>>, <<77442249, 10999330>>, <<38137053, 18955356>>,
       <<24723990, 18092972>>, <<60352027, 22548260>>, <<107849146, 3300278>>, <<74334680, 27405652>>, <<47594215, 25649730>> >>,
    \* random.seed(23)
    <<
       <<124133312, 52303486>>, <<127319712, 19455976>>, <<119780375, 55676375>>, <<11213982, 1145991>>, <<79460549, 20585235>>,
       <<56874414, 25446675>>, <<71147208, 24030331>>, <<17488964, 48717970>>, <<25769422, 17943698>>, <<59669655, 944622>>,
       <<29667375, 41618269>>, <<61073489, 60509244>>, <<3324166, 7106812>>, <<11512402, 65852211>>, <<95295687, 33436379>>,
       <<56538998, 1313961>>, <<68804560, 42121939>>, <<98543874, 28943635>>, <<48183675, 51725787>>, <<7724838, 13799377>>,
       <<105106219, 2369592>>, <<79070815, 24770260>>, <<88303549, 11538068>>, <<83348062, 14498553>>, <<130289876, 49339146>>,
       <<48693187, 37952058>>, <<101976832, 57723267>>, <<49483903, 64999066>>, <<76778819, 18875976>>, <<88655118, 65406008>>,
       <<42196860, 38452412>>, <<11507307, 54645107>>, <<63628118, 11920664>>, <<96356786, 32419230>>, <<79270291, 53116036>>,
       <<60055931, 45347088>>, <<86218578, 10977991>>, <<24431547, 53620367>>, <<23963226, 35808396>>, <<43407670, 45189006>>,
       <<109504686, 34901141>>, <<26254041, 39077350>>, <<15341248, 5524880>>, <<13234431, 28597935>>, <<5225521, 38118513>>,
       <<36985635, 63088635>>, <<76882853, 18829468>>, <<110147547, 39591766>>, <<44399875, 7317948>>, <<49614110, 60406374>>,
       <<38719710, 36383488>>, <<40907876, 60031515>>, <<104365356, 30516295>>, <<73684656, 14649545>>, <<34684347, 10035007>>,
       <<14378373, 41584159>>, <<105201072, 8012384>>, <<94911187, 53356984>>, <<111208155, 33085625>>, <<31947362, 22029298>>,
       <<73212955, 9559663>>, <<123311621, 50017177>>, <<79550275, 6734245>>, <<126898358, 25705024>>, <<22449224, 30152911>>,
       <<130863153, 2266882>>, <<7505429, 42335701>>, <<55864548, 26399410>>, <<3135702, 10909865>>, <<108657742, 15141976>>,
       <<92235142, 854694>>, <<130692586, 14911745>>, <<108040403, 49697197>>, <<127349554, 3816705>>, <<72289147, 63393665>>,
       <<132636316, 29868701>>, <<100531006, 6228685>>, <<46458467, 1071620>>, <<130780566, 52897072>>, <<50599970, 32923417>>,
       <<25946151, 2482587>>, <<10184048, 17738002>>, <<62539797, 36794062>>, <<26393232, 50663791>>, <<125302735, 30802013>>,
       <<127567734, 19840319>>, <<28984467, 6150794>>, <<13891998, 37335345>>, <<70997149, 43587418>>, <<22774056, 46346020>>,
       <<72967244, 37446018>>, <<109097908, 16014763>>, <<33965454, 6711632>>, <<56606542, 11068310>>, <<120912726, 790476>>,
       <<59685620, 51131851>>, <<46006645, 44063174>>, <<119766353, 27813875>>, <<109220474, 11078759>>, <<120149248, 41406580>>,
       <<92307482, 54390315>>, <<55381215, 4669108>>, <<93015964, 64465676>>, <<111376503, 60238064>>, <<85833867, 50046126>>,
       <<32000751, 36627906>>, <<39628210, 28528534>>, <<54977784, 20055824>>, <<103571211, 57743618>>, <<74771438, 40922918>>,
       <<73811361, 3457183>>, <<110936446, 19116459>>, <<14555412, 1698318>>, <<84723403, 9342378>>, <<44627703, 64755547>>,
       <<75075385, 48905052>>, <<112118707, 28887367>>, <<33333271, 11094846>>, <<127710588, 44333491>>, <<10546211, 22674722>>,
       <<75433219, 46207318>>, <<72721167, 7626122>>, <<31551982, 59520566>>, <<75275772, 64264721>>, <<63179904, 53655895>>,
       <<60343612, 66324630>>, <<96419357, 18261558>>, <<529084, 22694181>>, <<50623819, 1586910>>, <<105441574, 64196808>>,
       <<19040575, 50276520>>, <<116419218, 26961362>>, <<27325467, 53256328>>, <<91419339, 2025385>>, <<23241870, 43930611>>,
       <<60307245, 50052348>>, <<56713732, 64068280>>, <<10978973, 28183630>>, <<93899616, 18606804>>, <<64447988, 40086690>>,
       <<92477304, 66571876>>, <<72361255, 48348284>>, <<74607721, 11921680>>, <<70615529, 35731045>>, <<39969306, 17812445>>,
       <<120628651, 66697380>>, <<11595151, 15199968>>, <<117657423, 4174778>>, <<115892185, 59730579>>, <<66814455, 25323194>>,
       <<104280226, 1198042>>, <<90377745, 30657561>>, <<81211597, 27639705>>, <<39141469, 45717401>>, <<42902544, 27337653>>,
       <<46893012, 54005436>>, <<40556806, 18366965>>, <<128809114, 62423016>>, <<45805420, 10767375>>, <<52016110, 2871722>>,
       <<56312316, 59517745>>, <<109587959, 44822096>>, <<64123699, 50728832>>, <<74323379, 59283452>>, <<34290210, 36158126>>,
       <<37321910, 46373927>>, <<11957189, 25771108>>, <<29159965, 59941613>>, <<35418467, 66306307>>, <<114389827, 9815927>>,
       <<67440368, 24900796>>, <<14816180, 41638525>>, <<62105607, 66422564>>, <<16230860, 18625018>>, <<75970843, 51652122>>,
       <<59342227, 509400>>, <<115196980, 2485897>>, <<34799042, 52533462>>, <<114200766, 7469952>>, <<33232655, 51165486>>,
       <<131884220, 37842610>>, <<85118139, 31506557>>, <<5728362, 27303788>>, <<108337296, 5344547>>, <<36996658, 13450244>>,
       <<48619780, 37933988>>, <<19674111, 41743155>>, <<112398540, 52349894>>, <<12129792, 12102706>>, <<99088460, 34162540>>,
       <<53113322, 40992813>>, <<91193222, 24237318>>, <<39334638, 66174095>>, <<10506116, 41923409>>, <<122832029, 46735181>>,
       <<87879289, 40601601>>, <<22774405, 2752496>>, <<131022244, 8070973>>, <<122382105, 50041253>>, <<24508464, 66156605>>,
       <<2563546, 9132538>>, <<82006750, 45833141>>, <<18676624, 62559677>>, <<98232619, 19765602>>, <<62931421, 60173747>>,
       <<95168981, 19799829>>, <<76476104, 53345587>>, <<103442551, 3186605>>, <<110277046, 2890528>>, <<80920341, 50992151>>,
       <<79376104, 6872659>>, <<43870288, 1968090>>, <<17997258, 23523460>>, <<12413675, 10739647>>, <<115017055, 14378931>>,
       <<27660872, 64891603>>, <<57252509, 66576042>>, <<42513495, 50836754>>, <<83166612, 14930483>>, <<71584540, 39390934>>,
       <<115298349, 62999700>>, <<58524482, 44520908>>, <<48574157, 35678560>>, <<87405008, 14725160>>, <<99965708, 37641882>>,
       <<124213815, 49751775>>, <<41853200, 30634354>>, <<118980876, 44271460>>, <<131725792, 64132793>>, <<131851950, 42830273>>,
       <<17340290, 23931121>>, <<51017729, 65899710>>, <<103883123, 20828181>>, <<111538330, 61883233>>, <<5303698, 32986919>>,
       <<53024710, 23506056>>, <<97194563, 14116481>>, <<101774486, 43673299>>, <<71818804, 10856736>>, <<28260080, 21197170>>,
       <<54600813, 28366780>>, <<7857781, 2729620>>, <<42370135, 49388205>>, <<57360449, 31710738>>, <<110453130, 10756698>>,
       <<79099155, 62481263>>, <<55615222, 24598267>>, <<33008585, 64097714>>, <<42315982, 2353282>>, <<90026613, 19880507>>,
       <<59788436, 54927402>>, <<23236276, 26762230>>, <<110291069, 24651875>>, <<77257770, 33436319>>, <<129858224, 1095073>>,
       <<71992366, 60300319>>, <<83626757, 42365749>>, <<57397957, 54613145>>, <<81642429, 12193709>>, <<123323882, 29538763>>,
       <<131706524, 12768554>>, <<88711800, 51888981>>, <<57745743, 65842445>>, <<8412854, 30628647>>, <<112769557, 211870>>,
       <<52535706, 42754352>>, <<51331267, 17085170>>, <<7665648, 49464437>>, <<4580646, 28276011>>, <<52416907, 23504973>>,
       <<130825984, 63284890>>, <<99398398, 45076652>>, <<95134170, 65796490>>, <<89717322, 58646138>>, <<36624415, 48265609>>,
       <<22636345, 9636501>>, <<80846509, 66032064>>, <<8531076, 50412302>>, <<78930298, 54465225>>, <<69052271, 31150778>>,
       <<72812891, 50394179>>, <<16285289, 62266608>>, <<9073052, 28420141>>, <<63516200, 46069566>>, <<19538737, 65700188>>,
       <<86094597, 53595756>>, <<41545216, 7876280>>, <<83301455, 1190021>>, <<100691533, 34906947>>, <<81394539, 13996955>>,
       <<71347891, 43321850>>, <<26484034, 57172340>>, <<46598932, 52538976>>, <<131257963, 20950049>>, <<36046750, 47226466>>,
       <<38161885, 28877420>>, <<66207465, 61219477>>, <<73276696, 62921225>>, <<106131914, 36365487>>, <<39626864, 22694825>>,
       <<129228560, 49593124>>, <<2983222, 14777382>>, <<106080662, 44881820>>, <<76467725, 52850557>>, <<120952239, 37719123>>,
       <<20544082, 4249410>>, <<92505539, 52390446>>, <<127132753, 9372790>>, <<89530726, 62183949>>, <<15084333, 46744400>>,
       <<123605854, 20836010>>, <<130142521, 16817858>>, <<14871864, 64107764>>, <<111034054, 39090808>>, <<10647315, 55651978>>,
       <<10910909, 64557430>>, <<106753377, 2268460>>, <<96625496, 32002047>>, <<128471489, 62842741>>, <<84816063, 2368576>>,
       <<68678946, 17738853>>, <<36516418, 36549267>>, <<76887356, 28307252>>, <<133205472, 42625232>>, <<86793983, 460816>>,
       <<117513651, 61736451>>, <<26501045, 61774018>>, <<98645565, 44287609>>, <<98217347, 45449111>>, <<9509945, 44089071>>,
       <<110085306, 8837347>>, <<23631866, 56063432>>, <<29171150, 32797489>>, <<8215793, 49421549>>, <<88942085, 60235671>>,
       <<19098853, 17447122>>, <<130955952, 62176815>>, <<5476, 40270647>>, <<108647945, 25914881>>, <<101893736, 3058598>>,
       <<76410147, 50890787>>, <<76769944, 28271252>>, <<107102828, 3073511>>, <<85411104, 1202057>>, <<18706091, 9767060>>,
       <<106950911, 937634>>, <<47496749, 43347678>>, <<78351845, 63115894>>, <<68777814, 37428981>>, <<121337517, 65478851>>,
       <<55614553, 562136>>, <<114544059, 33328026>>, <<10979818, 30634867>>, <<43777624, 19201769>>, <<90002962, 48190976>>,
       <<82134272, 2313656>>, <<111711981, 11170761>>, <<27905270, 20613355>>, <<107936847, 56453795>>, <<106786352, 7715558>>,
       <<19183104, 10566968>>, <<18767588, 55043540>>, <<78287513, 44906883>>, <<130945868, 7445834>>, <<82373620, 56272766>>,
       <<57438922, 50478596>>, <<68030438, 13199597>>, <<108656026, 11496824>>, <<70100147, 45432301>>, <<72042587, 43430017>>,
       <<79629287, 40306403>>, <<125103693, 59874807>>, <<107427569, 13840617>>, <<112628542, 4307886>>, <<35729423, 44078712>>,
       <<80550548, 6641267>>, <<110472735, 39213229>>, <<96389357, 54219510>>, <<127750626, 56188743>>, <<122837551, 50528214>>,
       <<17129995, 7727068>>, <<68209658, 28874485>>, <<48017942, 4307941>>, <<27532925, 45478501>>, <<67216238, 25391794>>,
       <<132016529, 22444951>>, <<103115800, 54514345>>, <<13305340, 47723785>>, <<33249767, 9910583>>, <<49614930, 42340449>>,
       <<118802755, 28530917>>, <<61672688, 14568936>>, <<21410606, 37492411>>, <<73846036, 53231536>>, <<33182143, 22502852>>,
       <<5145705, 37833420>>, <<79546511, 65310049>>, <<132991203, 6457785>>, <<104141719, 8744302>>, <<98811653, 57996803>>,
       <<20486398, 4717666>>, <<75391746, 25013484>>, <<85486729, 2108018>>, <<101888325, 2392957>>, <<59956151, 54820819>>,
       <<7154800, 10940925>>, <<124514790, 59726495>>, <<35640059, 23432930>>, <<99109137, 13834193>>, <<62305333, 47370762>>,
       <<104581821, 45194652>>, <<45329151, 20179500>>, <<12410025, 53805736>>, <<57447276, 61106879>>, <<64426807, 52995410>>,
       <<106376595, 7007292>>, <<54191067, 35698073>>, <<89449529, 25349887>>, <<50507436, 43046163>>, <<98336074, 1123815>>,
       <<23384217, 37944263>>, <<118120442, 43548612>>, <<126753951, 4552730>>, <<3182273, 2409508>>, <<115212155, 62206891>>,
       <<104430030, 22050549>>, <<93013473, 9839531>>, <<14213798, 57125957>>, <<98362628, 44850046>>, <<103572177, 43905370>>,
       <<84057564, 56998847>>, <<129339827, 22517975>>, <<127097585, 26286750>>, <<85040842, 63641873>>, <<124154381, 46955980>>,
       <<19298910, 27480537>>, <<40036218, 8564361>>, <<71114857, 18424768>>, <<70152479, 36457308>>, <<127888172, 40085634>>,
       <<85354475, 54465879>>, <<83390792, 38224643>>, <<83385492, 42429171>>, <<126913179, 34355184>>, <<53743168, 45306751>>,
       <<99244002, 11935641>>, <<80551571, 18037298>>, <<54013250, 48656949>>, <<45502631, 48785361>>, <<20625737, 54775909>>,
       <<1463891, 59839415>>, <<45097893, 52801747>>, <<40293185, 36817430>>, <<10901273, 59014733>>, <<65159850, 32191195>>,
       <<47096160, 48052653>>, <<124286264, 3659730>>, <<104759371, 27728901>>, <<89265984, 50793014>>, <<113680911, 5295073>>,
       <<36865582, 11889769>>, <<15606666, 1279639>>, <<81831899, 40993231>>, <<30531244, 60592141>>, <<132211093, 24506363>>,
       <<57042242, 60067273>>, <<118933461, 55856608>>, <<32983651, 40428299>>, <<12580154, 54636513>>, <<84154568, 35141457>>,
       <<92999206, 17495058>>, <<34363428, 63435840>>, <<124393163, 13484099>>, <<130612509, 14353472>>, <<92242779, 11554822>>,
       <<131713317, 36084907>>, <<131957962, 65979324>>, <<19883509, 33001712>>, <<98027143, 21566163>>, <<100122204, 51772552>>,
       <<98231248, 27397687>>, <<45573040, 24840655>>, <<72922910, 14852605>>, <<78929057, 28600725>>, <<114078960, 49980728>>,
       <<6907887, 50136278>>, <<50359562, 60280385>>, <<42261422, 39674388>>, <<106241086, 49359469>>, <<15652752, 4362796>>,
       <<8279868, 8550671>>, <<15492617, 12351644>>, <<15573341, 58238767>>, <<58409947, 19063313>>, <<116192088, 8437227>>,
       <<47665683, 11346533>>, <<13575876, 60802739>>, <<89922393, 24385920>>, <<44649900, 19777584>>, <<76661453, 58236184>>,
       <<100344774, 54442177>>, <<61188603, 61562667>>, <<98419462, 67051038>>, <<83156174, 13791608>>, <<114324538, 37930087>>,
       <<102320851, 26625454>>, <<120957073, 40181009>>, <<100165918, 40213373>>, <<37878823, 66500004>>, <<67725842, 2478093>>,
       <<103652836, 43924566>>, <<105315413, 10931698>>, <<98026293, 42984229>>, <<113155809, 2552198>>, <<110670680, 30675551>>,
       <<72617558, 26589178>>, <<85968142, 43775918>>, <<5878734, 8466645>>, <<64082761, 897406>>, <<97545471, 24252545>>,
       <<122609568, 52479709>>, <<113861305, 42971952>>, <<58962339, 52296800>>, <<30818204, 36452451>>, <<118858192, 9447672>>,
       <<88220138, 47958313>>, <<25714862, 47245632>>, <<5059092, 18826195>>, <<117850342, 53594242>>, <<77404892, 13023857>>,
       <<14692765, 20677982>>, <<132864906, 32629487>>, <<78818218, 59607855>>, <<101823054, 212841>>, <<108234644, 18077256>>,
       <<34347478, 32530671>>, <<70113832, 32260981>>, <<23112102, 56930874>>, <<82199094, 66538011>>, <<58329394, 28267434>>,
       <<106032617, 13467259>>, <<15542350, 47635449>>, <<27586691, 62882580>>, <<51946678, 65339258>>, <<210975, 58303693>>,
       <<54568732, 8101236>>, <<129193447, 49401791>>, <<116194828, 18211350>>, <<24164850, 17870937>>, <<111632241, 54755406>>,
       <<30211555, 14609617>>, <<32163379, 479237>>, <<85575984, 45919888>>, <<39471829, 34508476>>, <<27012873, 27829842>>,
       <<11493027, 64683147>>, <<23725933, 27624137>>, <<25832611, 13291384>>, <<122389237, 65036761>>, <<5631989, 54012647>>,
       <<72498199, 60373672>>, <<28481764, 4778072>>, <<96674068, 1344042>>, <<404795, 12158855>>, <<49850883, 2608268>>,
       <<99011298, 38509135>>, <<3476659, 34590724>>, <<55207797, 46943632>>, <<43752508, 38675743>>, <<64985249, 58795191>>,
       <<84377138, 51384362>>, <<10727662, 59501043>>, <<116222244, 15038572>>, <<36244031, 4068492>>, <<103624816, 60783883>>,
       <<17840016, 265454>>, <<12592577, 4055012>>, <<25995471, 7275688>>, <<11256828, 67050939>>, <<33265191, 63385283>>,
       <<18730570, 57014082>>, <<11609431, 46614896>>, <<114335386, 29544550>>, <<70927055, 17900683>>, <<66644290, 32760827>>,
       <<68219584, 48124510>>, <<108787204, 53685890>>, <<6161678, 58476313>>, <<6087103, 37167243>>, <<89415190, 11477584>>,
       <<942186, 21521030>>, <<67872338, 55217277>>, <<83873780, 31911066>>, <<114018192, 55118894>>, <<89428, 38299517>>,
       <<53949306, 16231061>>, <<42004065, 40821930>>, <<77868120, 44465978>>, <<4431510, 22276774>>, <<101203608, 62390364>> >>,
    \* random.seed(24)
    <<
       <<95609057, 25693344>>, <<112716012, 39109619>>, <<24507068, 14647729>>, <<133987226, 11229301>>, <<26051054, 11366478>>,
       <<90044892, 45744833>>, <<12319390, 47371157>>, <<101701735, 67024513>>, <<20307176, 54115492>>, <<94833507, 19016742>>,
       <<97233942, 61886438>>, <<102803100, 853064>>, <<59240719, 31390862>>, <<116202003, 48387422>>, <<132594894, 42626002>>,
       <<15514732, 1890479>>, <<69376402, 11318005>>, <<128602170, 32971258>>, <<99206975, 56721429>>, <<59620494, 45758352>>,
       <<40882851, 33538251>>, <<127913685, 66781992>>, <<11424397, 46119227>>, <<102080091, 17039519>>, <<113179737, 41028320>>,
       <<21166206, 45714805>>, <<43871831, 64440063>>, <<40984483, 4999353>>, <<72757570, 43552484>>, <<49257553, 44342649>>,
       <<119949137, 2231988>>, <<124102035, 14343099>>, <<42435398, 22745190>>, <<120095323, 49862606>>, <<9342953, 20855990>>,
       <<13006371, 16507425>>, <<89272278, 40028203>>, <<107249508, 10263078>>, <<109944508, 56888655>>, <<133141032, 32852647>>,
       <<115390570, 19068384>>, <<35757233, 37732599>>, <<99694924, 18379252>>, <<124104933, 13292667>>, <<12562077, 38679557>>,
       <<66360835, 52658693>>, <<20706788, 43810440>>, <<19206613, 21760591>>, <<64364323, 13282564>>, <<89977034, 40555690>>,
       <<130695491, 52578116>>, <<17629358, 31932617>>, <<67839713, 17406361>>, <<133864105, 34147684>>, <<102677446, 15148424>>,
       <<71416850, 53440168>>, <<32562101, 5672679>>, <<84686987, 9168682>>, <<35025312, 21031350>>, <<86425785, 36381288>>,
       <<87066037, 15461765>>, <<52514933, 13861360>>, <<106672493, 20534986>>, <<54161386, 4465029>>, <<62932722, 24329554>>,
       <<111619021, 21860720>>, <<33625003, 51974562>>, <<24898116, 49869051>>, <<77088899, 55418493>>, <<58328022, 22910776>>,
       <<117328423, 59455076>>, <<33411849, 60740344>>, <<49837715, 2265460>>, <<7752288, 58453712>>, <<60514916, 47176974>>,
       <<41952602, 29445050>>, <<60226857, 52802210>>, <<102542742, 6015350>>, <<5029691, 5468858>>, <<132774245, 22010425>>,
       <<95488582, 27458789>>, <<108894339, 25250709>>, <<72319268, 33373728>>, <<77359426, 35188285>>, <<54971341, 57068349>>,
       <<53172953, 56254436>>, <<29635204, 18905856>>, <<40666264, 24960546>>, <<39438768, 9783371>>, <<45114690, 49971643>>,
       <<121761081, 4252583>>, <<107161726, 38839254>>, <<86048496, 53935956>>, <<2307783, 61124530>>, <<35209874, 62064960>>,
       <<72909169, 1031818>>, <<92892369, 43333825>>, <<56272346, 26858405>>, <<84916446, 26371277>>, <<121482259, 19538441>>,
       <<35904943, 30243926>>, <<51275506, 45481034>>, <<102038333, 24922822>>, <<42758628, 58475719>>, <<96815310, 572043>>,
       <<53303202, 61008576>>, <<2603399, 32304839>>, <<62087213, 53206923>>, <<9141952, 11305908>>, <<105322896, 15548231>>,
       <<113418992, 8456833>>, <<71075369, 43820195>>, <<120702722, 39546613>>, <<28594669, 63425458>>, <<59823029, 8975457>>,
       <<23574229, 55385877>>, <<6530780, 7573157>>, <<110657131, 5510153>>, <<7008160, 15728921>>, <<125423429, 1592063>>,
       <<74727648, 64979889>>, <<94044018, 32801106>>, <<6655378, 12295684>>, <<121774706, 22329790>>, <<106536793, 20727563>>,
       <<13936252, 57978267>>, <<24540391, 7450550>>, <<18898839, 52288613>>, <<67654098, 51336147>>, <<10563590, 40073490>>,
       <<107171448, 35070128>>, <<66630606, 35011858>>, <<94501565, 20543369>>, <<34173634, 46035060>>, <<87787506, 61666245>>,
       <<60876817, 30904626>>, <<87021265, 25398260>>, <<55129685, 61581340>>, <<132842471, 44263386>>, <<113578738, 49606281>>,
       <<111765685, 10375127>>, <<45802006, 5428106>>, <<25647290, 35630844>>, <<20586915, 12189328>>, <<17664330, 29587902>>,
       <<129845243, 22867526>>, <<37867874, 64287508>>, <<116845502, 57004512>>, <<31164606, 43035199>>, <<83177267, 9074830>>,
       <<33447527, 6697682>>, <<41225254, 66059799>>, <<100339093, 42734198>>, <<81655347, 40581952>>, <<126955825, 60146751>>,
       <<31868928, 61701938>>, <<36301746, 30978394>>, <<8429728, 12606622>>, <<28726095, 25269195>>, <<131618359, 41906273>>,
       <<75674161, 54085121>>, <<63821711, 39357049>>, <<45746857, 66575733>>, <<101966841, 30545641>>, <<92499176, 58531735>>,
       <<20887160, 57903986>>, <<6216587, 62552883>>, <<23284806, 11326700>>, <<109674498, 12728427>>, <<98367954, 55359780>>,
       <<30389420, 845644>>, <<31432800, 18524707>>, <<41241969, 31925897>>, <<91167816, 41731358>>, <<100443956, 39004848>>,
       <<31983844, 59897886>>, <<44156425, 17712534>>, <<31834838, 19652569>>, <<126922937, 31818348>>, <<74050741, 18972148>>,
       <<126127521, 1989732>>, <<32505015, 23107412>>, <<84906503, 40041148>>, <<76345941, 19697905>>, <<125091181, 14688667>>,
       <<48919393, 55897222>>, <<30669621, 53353093>>, <<109751154, 62475494>>, <<127871763, 52493562>>, <<68291539, 26354589>>,
       <<44656361, 5030580>>, <<11440045, 24024967>>, <<59627286, 56499600>>, <<124167131, 30343306>>, <<47950361, 64484442>>,
       <<60220519, 31627993>>, <<75746447, 27762275>>, <<31922156, 2263711>>, <<14559502, 10940578>>, <<69662011, 2048353>>,
       <<129826200, 51819087>>, <<117031603, 52255584>>, <<40536406, 42521693>>, <<105265513, 36317827>>, <<111661470, 4701365>>,
       <<78281077, 44216417>>, <<48252721, 65743714>>, <<26289230, 61101001>>, <<94438798, 51141794>>, <<92126496, 40707713>>,
       <<28682069, 23974148>>, <<18974757, 63633201>>, <<15300557, 43304577>>, <<111171295, 34891624>>, <<118848104, 14332079>>,
       <<69369809, 16963514>>, <<81999743, 42275075>>, <<94940500, 24865621>>, <<21054879, 18661961>>, <<69727321, 57016271>>,
       <<60150107, 19296446>>, <<116699937, 59033374>>, <<22000398, 19112664>>, <<113672121, 38876327>>, <<19090726, 25574422>>,
       <<81956772, 1081608>>, <<119663795, 56721677>>, <<10223320, 16206545>>, <<64907700, 61396702>>, <<595898, 16586370>>,
       <<68337069, 51798516>>, <<65182880, 63986761>>, <<128811929, 51431171>>, <<65241813, 9349058>>, <<122080505, 36056484>>,
       <<97872905, 15460284>>, <<112983675, 40368420>>, <<47001836, 63600111>>, <<12849016, 40620680>>, <<85561456, 43646754>>,
       <<15076632, 23039988>>, <<84049795, 49042404>>, <<24060517, 44408925>>, <<81114095, 66009571>>, <<102847279, 15328461>>,
       <<129041994, 38804538>>, <<27004845, 23021769>>, <<23460528, 40305583>>, <<56496202, 15477009>>, <<130720654, 50445530>>,
       <<34171610, 64604694>>, <<63766542, 65703098>>, <<51177270, 37519752>>, <<8321421, 31392170>>, <<72402670, 24428065>>,
       <<41184726, 13303880>>, <<63094243, 56462801>>, <<99224985, 53092781>>, <<89556875, 49522628>>, <<32859021, 66162350>>,
       <<86914556, 11028917>>, <<72016039, 55277677>>, <<102642198, 57099367>>, <<456621, 63567388>>, <<37708938, 58829467>>,
       <<90317349, 9294117>>, <<74812559, 4880966>>, <<67696764, 35425769>>, <<71025040, 50210991>>, <<82882921, 16384330>>,
       <<98772877, 61826581>>, <<112040606, 30298490>>, <<104470994, 42030210>>, <<121682522, 21124248>>, <<77260687, 12862569>>,
       <<23023376, 1227>>, <<49608670, 40440637>>, <<115681294, 64771642>>, <<103632505, 31903637>>, <<83173242, 2929221>>,
       <<17126702, 44661192>>, <<21529766, 23005036>>, <<88042728, 18702258>>, <<56669780, 64222960>>, <<25208493, 43234277>>,
       <<130251329, 8367375>>, <<31047577, 29132530>>, <<124349912, 57520913>>, <<83416526, 19907177>>, <<128204008, 63460915>>,
       <<104027400, 47874833>>, <<26986375, 32039988>>, <<30570883, 14657149>>, <<115811605, 17998188>>, <<58279042, 10182829>>,
       <<67588676, 37874159>>, <<100306880, 52560914>>, <<80914156, 15577507>>, <<96553319, 53365151>>, <<69986770, 7782720>>,
       <<36980105, 7487756>>, <<96861839, 704121>>, <<16955653, 24114575>>, <<97178903, 38450444>>, <<106836343, 27680511>>,
       <<19062404, 35161573>>, <<320953, 23933355>>, <<122695815, 42065596>>, <<25029833, 27573980>>, <<71553566, 61446581>>,
       <<38918374, 45273345>>, <<18398213, 55068239>>, <<34647379, 64916634>>, <<9848079, 13900293>>, <<113613199, 6716516>>,
       <<103289586, 29013466>>, <<105161378, 20282533>>, <<19719570, 40313531>>, <<43432778, 48513774>>, <<13073269, 59015151>>,
       <<113949419, 15690429>>, <<130896081, 27226462>>, <<127303266, 16037890>>, <<113164313, 10794653>>, <<82286969, 53140672>>,
       <<66778711, 59449504>>, <<15385056, 50295589>>, <<4378157, 6375995>>, <<83089631, 60655611>>, <<129090555, 18605648>>,
       <<131670521, 66932827>>, <<56029945, 29116309>>, <<70016943, 31563211>>, <<118278361, 6674287>>, <<37946465, 24384290>>,
       <<98485337, 65041850>>, <<80519812, 40586133>>, <<58233670, 26304044>>, <<52291751, 59604679>>, <<21294082, 61526561>>,
       <<19632681, 65506858>>, <<39911220, 55319425>>, <<132671465, 6363911>>, <<109911484, 31549094>>, <<1170906, 54991405>>,
       <<101525771, 57191251>>, <<18965240, 1098627>>, <<77334294, 52785896>>, <<123540858, 51887028>>, <<121527307, 43447853>>,
       <<119016076, 58466214>>, <<133248925, 29713766>>, <<84754893, 59379287>>, <<4206760, 67060643>>, <<34080978, 4849147>>,
       <<89807624, 12184142>>, <<79959660, 19252555>>, <<122426060, 26785182>>, <<22877170, 25061096>>, <<118976329, 8190044>>,
       <<77535625, 52126960>>, <<79561269, 16899207>>, <<16244741, 43382726>>, <<47726579, 50114523>>, <<69027024, 22011531>>,
       <<101304039, 17016090>>, <<91277774, 53838612>>, <<86057947, 38029295>>, <<95362441, 35674652>>, <<47356390, 44378379>>,
       <<45015040, 64789246>>, <<131280466, 9733139>>, <<89992978, 65626122>>, <<75145017, 15925051>>, <<129648402, 8834996>>,
       <<116133084, 9686056>>, <<96774539, 15433074>>, <<131322464, 28224529>>, <<51549974, 27378001>>, <<124217073, 58020958>>,
       <<77418826, 7077348>>, <<57174091, 17257323>>, <<53970251, 65710859>>, <<6587880, 20636764>>, <<119042541, 26706517>>,
       <<130664098, 13812841>>, <<50720825, 7841461>>, <<127115963, 18530660>>, <<17522174, 12780401>>, <<61958078, 56724087>>,
       <<133244542, 56774465>>, <<84898097, 21793764>>, <<21047753, 51538083>>, <<85189473, 37925144>>, <<3487922, 14647524>>,
       <<96864156, 11514281>>, <<78849637, 21272934>>, <<86490302, 5627054>>, <<90628986, 11281223>>, <<12992455, 37362021>>,
       <<118423889, 36896230>>, <<102586943, 64677825>>, <<119870943, 39471162>>, <<30983932, 45249538>>, <<30566315, 13203652>>,
       <<96983449, 23570466>>, <<123778688, 34429484>>, <<76371028, 29580628>>, <<32634051, 42364422>>, <<59252795, 51137631>>,
       <<32306409, 61374005>>, <<64839310, 57811822>>, <<128707170, 19715802>>, <<91049381, 39144873>>, <<27230291, 65803363>>,
       <<122900758, 35700532>>, <<117723117, 53980502>>, <<54145273, 61080366>>, <<122715, 3513215>>, <<89519477, 66943501>>,
       <<43529694, 9217529>>, <<17131233, 12651897>>, <<121980666, 54429888>>, <<53707767, 56468623>>, <<22058467, 14043766>>,
       <<38080749, 7434576>>, <<133596554, 20377903>>, <<47144880, 63469197>>, <<63336947, 65209541>>, <<33764856, 21450805>>,
       <<10927263, 55036729>>, <<17688729, 22134702>>, <<7942995, 27539740>>, <<61154323, 34518253>>, <<57875389, 30489374>>,
       <<94452885, 50424448>>, <<111846165, 21089146>>, <<117339254, 63210538>>, <<18788382, 64249444>>, <<74894713, 59971452>>,
       <<19188423, 50890064>>, <<39773271, 3140818>>, <<51915722, 4767173>>, <<52720561, 54810967>>, <<113232744, 25760433>>,
       <<57016177, 7000243>>, <<21476144, 15865646>>, <<80557329, 1759645>>, <<34901704, 18501395>>, <<121526775, 11935509>>,
       <<14491992, 45686403>>, <<20837965, 66919423>>, <<8754490, 8445750>>, <<39843037, 1516148>>, <<105045346, 13524671>>,
       <<10743189, 32600003>>, <<81669602, 5674076>>, <<120403298, 42452709>>, <<31039457, 59386561>>, <<99909567, 46162186>>,
       <<97088493, 53487312>>, <<129265248, 27296751>>, <<114369855, 10733698>>, <<84361405, 18049981>>, <<57083410, 18520416>>,
       <<49393536, 47648677>>, <<16398570, 7773353>>, <<7133405, 9961492>>, <<86445940, 25107076>>, <<38032306, 65699979>>,
       <<21023096, 31243117>>, <<64175704, 44840204>>, <<19494851, 54054919>>, <<85295301, 7779833>>, <<127737160, 65342234>>,
       <<49988928, 17678716>>, <<4430068, 22062733>>, <<22431600, 17861150>>, <<41954341, 51599987>>, <<119184694, 31268740>>,
       <<126880046, 11013993>>, <<81350037, 31482271>>, <<53252143, 64253817>>, <<12809566, 19356405>>, <<112552738, 695220>>,
       <<3240585, 47126566>>, <<34928961, 5104546>>, <<98387977, 31365443>>, <<93008180, 56395896>>, <<24918524, 48537891>>,
       <<132831965, 13211698>>, <<87744042, 60211017>>, <<92423933, 6251955>>, <<31310801, 40870009>>, <<106873993, 9207924>>,
       <<3510343, 10965520>>, <<80769333, 51558314>>, <<2757402, 30059155>>, <<105603603, 5973260>>, <<79195383, 47109557>>,
       <<76308204, 38442031>>, <<49868620, 44064977>>, <<104994356, 39329752>>, <<4606174, 12771690>>, <<20537205, 7537778>>,
       <<1585332, 48429883>>, <<84172839, 51219510>>, <<8675318, 37823878>>, <<931459, 1506790>>, <<114549416, 26897465>>,
       <<42238595, 51099686>>, <<48837921, 64817629>>, <<111467989, 7453201>>, <<49672710, 10596119>>, <<112896896, 27997532>>,
       <<132818205, 1612518>>, <<14370922, 42434384>>, <<31740256, 28373843>>, <<1479487, 3604535>>, <<35399158, 22247875>>,
       <<79572563, 51741509>>, <<131675337, 57165405>>, <<106723815, 21794704>>, <<96659265, 35913753>>, <<19642206, 6128132>>,
       <<124465813, 11958835>>, <<58141190, 12770073>>, <<104219267, 57048801>>, <<26132702, 13666777>>, <<130831364, 18824132>>,
       <<51874942, 52192840>>, <<39314560, 3546760>>, <<115782734, 25965523>>, <<89393379, 15809394>>, <<53819174, 38188560>>,
       <<60454541, 23742917>>, <<99141942, 40396582>>, <<51077911, 65075356>>, <<70852670, 51119571>>, <<66753191, 61865766>>,
       <<53539070, 8788828>>, <<46981240, 63135034>>, <<34625645, 31300377>>, <<106440301, 64235235>>, <<88319013, 38903312>>,
       <<23254594, 18415421>>, <<22303644, 10525528>>, <<52735223, 43717894>>, <<79787248, 8007893>>, <<67789403, 41140322>>,
       <<86809477, 41679474>>, <<94094323, 64625459>>, <<39561885, 22024628>>, <<8959619, 63637306>>, <<88404169, 51316738>>,
       <<72406813, 29661935>>, <<45071061, 43267957>>, <<118977898, 66608058>>, <<19457658, 30647163>>, <<15618037, 48990363>>,
       <<84361059, 39448335>>, <<51613356, 6038582>>, <<87559437, 21671441>>, <<12227199, 58761480>>, <<65095874, 53287611>>,
       <<82510528, 41709049>>, <<58233741, 29435680>>, <<19407728, 24394323>>, <<10634450, 27849258>>, <<41931435, 36819414>>,
       <<39130994, 60021469>>, <<118420984, 25049483>>, <<9027416, 19823671>>, <<100450394, 39585167>>, <<128074980, 52988773>>,
       <<69653774, 34940069>>, <<22436953, 2605321>>, <<82195244, 56384326>>, <<124390275, 28377199>>, <<55156496, 2634321>>,
       <<97609640, 4499655>>, <<28059101, 62784107>>, <<34824618, 21341420>>, <<47305179, 37901510>>, <<81743054, 49274975>>,
       <<126110082, 13735977>>, <<21598840, 59854720>>, <<5664657, 52957106>>, <<34182757, 6985533>>, <<86679769, 51391579>>,
       <<91670401, 21190497>>, <<72086127, 20185462>>, <<96865023, 58464460>>, <<64593673, 42372959>>, <<21027818, 2554602>>,
       <<128622411, 40332542>>, <<45372059, 54885375>>, <<995588, 46069751>>, <<22856839, 34098500>>, <<34726656, 36352453>> >>,
    \* random.seed(25)
    <<
       <<50595023, 51572261>>, <<124391447, 56608824>>, <<113205505, 1029332>>, <<28728736, 62476603>>, <<116998682, 20451534>>,
       <<85424449, 31780844>>, <<5689774, 57582296>>, <<127905744, 50827198>>, <<34317281, 2330022>>, <<41057334, 37898899>>,
       <<56919075, 6452551>>, <<78989013, 57621715>>, <<16695564, 38647853>>, <<92164267, 48920945>>, <<111701432, 13229503>>,
       <<68762298, 64658192>>, <<106630725, 63433868>>, <<83883390, 21173087>>, <<110704462, 61645066>>, <<24285192, 36828385>>,
       <<48140856, 34476703>>, <<63001047, 35208794>>, <<13956513, 59278062>>, <<130608137, 55939065>>, <<85366437, 45503640>>,
       <<13183642, 40302273>>, <<78218891, 23910559>>, <<55623313, 23703845>>, <<25420353, 45374320>>, <<21599993, 41516164>>,
       <<61839948, 4862566>>, <<9444881, 27075160>>, <<75575024, 4654208>>, <<69112442, 42664842>>, <<17056377, 48947884>>,
       <<117462139, 64972660>>, <<5439384, 36377920>>, <<23095122, 5188324>>, <<109679809, 39050977>>, <<29637356, 51823922>>,
       <<56937447, 57826839>>, <<75105900, 29991494>>, <<58460048, 54001347>>, <<66321790, 41026491>>, <<67743881, 43881030>>,
       <<64792080, 29681475>>, <<7732187, 55035427>>, <<109566833, 33210009>>, <<37963369, 11357911>>, <<6407525, 66249211>>,
       <<54798960, 55706378>>, <<109312848, 25287474>>, <<84399622, 64876271>>, <<61368942, 1238939>>, <<64156048, 62916150>>,
       <<29477673, 28803511>>, <<82954874, 38669888>>, <<47037513, 63598575>>, <<8615244, 56334494>>, <<17463100, 8369340>>,
       <<12431727, 15700732>>, <<91871945, 12575881>>, <<118406167, 42660876>>, <<101400952, 9064831>>, <<29457877, 62071743>>,
       <<19741803, 59327308>>, <<127579103, 50900466>>, <<50195008, 14141094>>, <<22442647, 42358499>>, <<76697253, 60153777>>,
       <<83046999, 53008918>>, <<72575445, 35091937>>, <<60658764, 24781638>>, <<40771820, 24342563>>, <<66393479, 33300213>>,
       <<61406813, 31326053>>, <<91447388, 28315452>>, <<60164658, 25243748>>, <<47636325, 33703913>>, <<132359186, 62203845>>,
       <<14861219, 58258868>>, <<101416940, 17694451>>, <<56003946, 21339729>>, <<108098509, 1876877>>, <<95052156, 65112841>>,
       <<75986357, 54430725>>, <<81891219, 61276378>>, <<30809022, 38399868>>, <<2154808, 11832078>>, <<100199647, 41924882>>,
       <<34743423, 34587206>>, <<14911765, 49760415>>, <<108901456, 17459914>>, <<79319222, 52840912>>, <<4342111, 4171658>>,
       <<69722065, 54478174>>, <<21953692, 47872703>>, <<116132622, 2191250>>, <<36371436, 60553144>>, <<126142402, 11665889>>,
       <<82213919, 21379792>>, <<10513466, 6812936>>, <<54873119, 45036517>>, <<129720063, 40156161>>, <<94083453, 43802589>>,
       <<20790230, 36493786>>, <<49377819, 8518866>>, <<36737860, 64597628>>, <<12535178, 65196540>>, <<79680762, 6232337>>,
       <<93278092, 37824887>>, <<29104693, 64808395>>, <<74069803, 47373711>>, <<115584448, 42764493>>, <<119769834, 55873822>>,
       <<22991675, 4895426>>, <<10054426, 41304245>>, <<122455811, 1055900>>, <<43816842, 47863363>>, <<22285912, 33804067>>,
       <<107220176, 15444839>>, <<35460078, 5003966>>, <<96371234, 6266859>>, <<92731834, 8235682>>, <<39278939, 1922003>>,
       <<61879361, 40176662>>, <<38845538, 53281672>>, <<108234247, 24511528>>, <<38118018, 17017319>>, <<36750755, 3684963>>,
       <<115089119, 10606939>>, <<37092477, 57663658>>, <<58600310, 2646707>>, <<69244406, 20621807>>, <<270039, 61593380>>,
       <<38492649, 4614807>>, <<99802422, 40424839>>, <<131695915, 9616105>>, <<45872733, 65818995>>, <<64009593, 63440358>>,
       <<7646100, 15859599>>, <<65506143, 30196107>>, <<48281284, 54862943>>, <<67391816, 3316233>>, <<40079340, 30051090>>,
       <<42137321, 20598223>>, <<122569606, 63528863>>, <<104309344, 10387081>>, <<48326449, 27924750>>, <<9411628, 15915132>>,
       <<6995073, 43713259>>, <<12953527, 63482679>>, <<17510196, 55746488>>, <<78201284, 26410542>>, <<69931669, 816869>>,
       <<17438889, 63982181>>, <<117869717, 9333168>>, <<89975518, 5306312>>, <<95230205, 57271002>>, <<120199497, 42233396>>,
       <<42122784, 19544928>>, <<121175746, 36386242>>, <<131014654, 57588688>>, <<121977335, 53217502>>, <<6151396, 5101938>>,
       <<114190081, 25163125>>, <<132113571, 66192901>>, <<14330588, 7531321>>, <<116159346, 37737326>>, <<109428833, 39993600>>,
       <<4328525, 7736035>>, <<94976582, 45422158>>, <<101923020, 63484349>>, <<100571655, 33537733>>, <<7753183, 53910714>>,
       <<130150985, 54019668>>, <<9930108, 53946949>>, <<11363984, 13435308>>, <<127131325, 4435638>>, <<64569151, 63955381>>,
       <<23946099, 50842464>>, <<52979063, 52412444>>, <<83696073, 59878097>>, <<36014527, 50019883>>, <<122741934, 49107993>>,
       <<90714681, 10877071>>, <<51858758, 46721680>>, <<49215031, 37603065>>, <<15519596, 4012662>>, <<132313580, 5384583>>,
       <<41246060, 48832020>>, <<125628720, 33785668>>, <<72475565, 54817827>>, <<72125647, 13613506>>, <<23570589, 5083435>>,
       <<67461826, 25533070>>, <<13233272, 48866516>>, <<60131759, 4422775>>, <<82330214, 43483874>>, <<124258383, 51181092>>,
       <<29655228, 25668161>>, <<24367687, 53067775>>, <<105730025, 64493459>>, <<17754344, 33658309>>, <<26117960, 18878735>>,
       <<64197888, 59307261>>, <<57378770, 46518582>>, <<133260850, 13503896>>, <<8765006, 65771015>>, <<116909169, 59976782>>,
       <<62092950, 26505885>>, <<18552780, 20946452>>, <<31975744, 23193474>>, <<121986343, 66944125>>, <<23736915, 10851377>>,
       <<56785584, 50576688>>, <<5229329, 21722269>>, <<65326902, 52989758>>, <<93977551, 15523503>>, <<98810954, 14036062>>,
       <<45649245, 18261920>>, <<57169039, 40881858>>, <<110793015, 56014500>>, <<117772798, 57685776>>, <<59826327, 24142458>>,
       <<7429564, 58036659>>, <<126018659, 13792533>>, <<46262591, 42229510>>, <<63857085, 48964276>>, <<6294725, 34402186>>,
       <<2939729, 46052440>>, <<15220389, 7732900>>, <<73033420, 26271786>>, <<35054412, 53718687>>, <<106513788, 41922032>>,
       <<19571161, 60253263>>, <<87925568, 53044632>>, <<2879543, 63438144>>, <<48198838, 28077670>>, <<126392753, 28346764>>,
       <<34497868, 67054994>>, <<42139987, 58209659>>, <<4202915, 4260768>>, <<117091046, 28880170>>, <<66189119, 31124066>>,
       <<33551750, 2688758>>, <<75261052, 52061348>>, <<35870397, 25877482>>, <<119159268, 546375>>, <<57067962, 650711>>,
       <<9039736, 22204715>>, <<29224629, 4743154>>, <<7174368, 63322331>>, <<102443203, 335286>>, <<13738110, 2552007>>,
       <<65052114, 2398381>>, <<79618340, 8312212>>, <<12644615, 58610202>>, <<86075130, 59913177>>, <<84253069, 34424497>>,
       <<125062463, 53525053>>, <<125735522, 18325488>>, <<131346435, 7047221>>, <<70625126, 26822531>>, <<65242738, 37962112>>,
       <<57720229, 34780206>>, <<17719227, 50564056>>, <<79865359, 38579043>>, <<134099868, 10534004>>, <<67566726, 41539587>>,
       <<114547715, 2141504>>, <<35498036, 1063495>>, <<50356894, 63896929>>, <<56816696, 3248737>>, <<130215985, 33946549>>,
       <<49601499, 48478806>>, <<102028906, 47846747>>, <<19896191, 60577383>>, <<101767697, 7726029>>, <<63500275, 22861265>>,
       <<133098914, 17637877>>, <<2215093, 2280268>>, <<35101446, 37801274>>, <<119052797, 36666101>>, <<59088628, 35896289>>,
       <<37442866, 23164643>>, <<116751081, 56182668>>, <<57327813, 65216922>>, <<118018219, 39413404>>, <<73231413, 59511476>>,
       <<8103417, 34285721>>, <<13388403, 38681909>>, <<116428321, 66296155>>, <<122529170, 6839242>>, <<22672047, 15068428>>,
       <<133440326, 40071291>>, <<112536598, 52577646>>, <<71716361, 21209840>>, <<103651600, 47386816>>, <<71125788, 47645112>>,
       <<4592085, 8814775>>, <<39440050, 9609524>>, <<45661606, 38973365>>, <<120078312, 35548598>>, <<36780232, 18622836>>,
       <<93451707, 28883098>>, <<84950506, 33415163>>, <<15774374, 44308212>>, <<61567894, 35891983>>, <<73766688, 41650413>>,
       <<97399584, 13876279>>, <<47432972, 62261955>>, <<132523481, 46406973>>, <<108090971, 52123279>>, <<3351390, 9010367>>,
       <<118241850, 27866041>>, <<81942302, 53900749>>, <<126112187, 1683994>>, <<30713879, 23527884>>, <<103736264, 19027810>>,
       <<96043621, 7927490>>, <<53639539, 54142740>>, <<47618711, 62790246>>, <<80717097, 20996096>>, <<131340601, 1546362>>,
       <<92076873, 6840272>>, <<86276254, 65613481>>, <<92033244, 47520229>>, <<113043659, 53167880>>, <<79063559, 55452011>>,
       <<95451380, 4681776>>, <<5039775, 41866058>>, <<116180130, 28841225>>, <<129274628, 32849968>>, <<77508292, 54383544>>,
       <<76925174, 13188688>>, <<125428359, 59739280>>, <<75886732, 9631185>>, <<119799944, 1880630>>, <<73474141, 11123410>>,
       <<76487248, 53374738>>, <<123087788, 57307696>>, <<123974519, 1729984>>, <<80007103, 56265226>>, <<72790624, 42287616>>,
       <<74149701, 54742389>>, <<62871431, 55951675>>, <<49704412, 19477402>>, <<30480801, 66762595>>, <<38769110, 2836642>>,
       <<29765132, 1837131>>, <<126485659, 29652523>>, <<54590766, 35929836>>, <<117557788, 28968302>>, <<63244037, 34643978>>,
       <<133700151, 39286412>>, <<79610990, 5856037>>, <<45974589, 32968109>>, <<57023881, 38626521>>, <<35938327, 29630878>>,
       <<44082032, 49390409>>, <<38437831, 65169845>>, <<37373361, 14932469>>, <<51650840, 44659047>>, <<3396132, 64623343>>,
       <<126917437, 51557169>>, <<108544750, 59834147>>, <<45802711, 11470297>>, <<112561669, 17482730>>, <<6608001, 64324778>>,
       <<82750639, 66369772>>, <<79300748, 26583929>>, <<118303026, 13860560>>, <<131494713, 22786371>>, <<81677555, 53125036>>,
       <<111407826, 1005670>>, <<93737933, 5122104>>, <<12394916, 59014809>>, <<14551492, 55612129>>, <<15216185, 52347935>>,
       <<101278163, 41444422>>, <<63304943, 44741607>>, <<47357757, 5934279>>, <<66879113, 52444749>>, <<126005344, 5753828>>,
       <<64768257, 16157083>>, <<112051302, 41431348>>, <<49210778, 52875054>>, <<87832626, 17905911>>, <<104509621, 60634340>>,
       <<24589604, 56135844>>, <<122186843, 22999902>>, <<26364871, 9036154>>, <<21048709, 10981516>>, <<130055611, 36289831>>,
       <<31427290, 44214906>>, <<57665746, 21097016>>, <<126179828, 15028783>>, <<28009997, 50874954>>, <<88455590, 38699377>>,
       <<96217813, 51500103>>, <<10465441, 17196911>>, <<15268489, 21073656>>, <<131757360, 25681347>>, <<110955705, 29094059>>,
       <<89560032, 32332417>>, <<84773250, 64484279>>, <<65917741, 38096831>>, <<122079582, 38594388>>, <<3254076, 42918118>>,
       <<38090703, 56224100>>, <<38400383, 30346339>>, <<86057993, 14950816>>, <<126074660, 65084719>>, <<33304273, 1489842>>,
       <<14780705, 47050182>>, <<32573316, 3212495>>, <<114739787, 26416280>>, <<83138499, 6093007>>, <<19532269, 60276587>>,
       <<95126858, 6849537>>, <<54798753, 27856072>>, <<7707603, 44299507>>, <<42700371, 35131216>>, <<114608865, 34189392>>,
       <<127605073, 47574904>>, <<52106554, 9754142>>, <<104685517, 41489709>>, <<125198720, 16685872>>, <<14306472, 59994315>>,
       <<25634591, 15548788>>, <<44848026, 64129568>>, <<44365013, 8464296>>, <<85814901, 5146726>>, <<132350365, 65314992>>,
       <<26523628, 43191633>>, <<37236034, 4582918>>, <<68966761, 32403504>>, <<98054991, 55321099>>, <<19929027, 7733252>>,
       <<75659567, 66263061>>, <<83343890, 66704851>>, <<103458719, 14258700>>, <<47566040, 39365827>>, <<42947483, 37355747>>,
       <<77400362, 4804075>>, <<50452141, 9081452>>, <<60086034, 30768578>>, <<104327038, 26920920>>, <<130667258, 64932675>>,
       <<133011288, 55370839>>, <<23399622, 60646465>>, <<72630862, 43054633>>, <<72854614, 9672278>>, <<74062146, 53242944>>,
       <<26443124, 22045389>>, <<43476714, 4207589>>, <<53063711, 5967582>>, <<25977057, 12302621>>, <<65281653, 23070972>>,
       <<121896910, 14914669>>, <<88639762, 16448967>>, <<21215589, 35308928>>, <<33667281, 35368948>>, <<49140736, 32538857>>,
       <<110891871, 40450912>>, <<4230844, 13268306>>, <<11616381, 1255594>>, <<112910763, 44390731>>, <<49008276, 40869913>>,
       <<24698231, 48432178>>, <<72711852, 48708320>>, <<5422439, 8027779>>, <<95631033, 9611325>>, <<119351845, 7644223>>,
       <<7917521, 2926941>>, <<70419614, 15939179>>, <<124827783, 63060144>>, <<41931702, 44148220>>, <<39774331, 10956626>>,
       <<118461765, 52852176>>, <<185777, 19747455>>, <<5851453, 66052475>>, <<80353388, 16162403>>, <<110894464, 59629562>>,
       <<76712320, 53514322>>, <<92142377, 18496312>>, <<55534689, 61495914>>, <<128949477, 9847126>>, <<42370516, 24778810>>,
       <<75495980, 61172137>>, <<23355115, 46206353>>, <<40724564, 29110516>>, <<82812433, 39660118>>, <<9713961, 53872860>>,
       <<101421639, 20549381>>, <<32326320, 51188743>>, <<105810417, 62866536>>, <<18348805, 24749906>>, <<84318708, 23121309>>,
       <<66486005, 41026891>>, <<32909675, 36538348>>, <<105579441, 47682085>>, <<92584480, 8960194>>, <<54429148, 44394314>>,
       <<73846330, 25782145>>, <<57058161, 17493371>>, <<102817547, 25203522>>, <<4586114, 6680842>>, <<7043931, 14108326>>,
       <<76598266, 40636117>>, <<8445671, 43152832>>, <<117982879, 21249369>>, <<119476250, 22463509>>, <<31365687, 49091361>>,
       <<24475814, 58553965>>, <<116975431, 37155732>>, <<9058907, 53016086>>, <<68246245, 35730981>>, <<15195714, 1615387>>,
       <<133112647, 16719266>>, <<56410627, 31813856>>, <<90449188, 29726664>>, <<38723458, 22810577>>, <<117336968, 24763525>>,
       <<97704766, 5250967>>, <<731590, 59189273>>, <<10845726, 35047957>>, <<40872146, 65524130>>, <<43667835, 12297102>>,
       <<3525331, 44724490>>, <<83600072, 20352875>>, <<3425695, 33581556>>, <<72420923, 47857137>>, <<100825541, 59819300>>,
       <<37616578, 18462366>>, <<40576738, 59837220>>, <<115088758, 13047836>>, <<103376045, 38173706>>, <<102873688, 18124905>>,
       <<13124871, 63886677>>, <<34302981, 7552823>>, <<49295856, 15301799>>, <<65955572, 45271143>>, <<101662425, 41142470>>,
       <<120859698, 58512910>>, <<77609372, 23490689>>, <<9393088, 65357551>>, <<4418780, 22242877>>, <<53701018, 65613753>>,
       <<126676620, 29778611>>, <<10121311, 50373132>>, <<131066927, 25353327>>, <<1855034, 10960866>>, <<3184074, 27133428>>,
       <<63409639, 21006733>>, <<9491404, 49263315>>, <<45568823, 45238109>>, <<131570788, 40847970>>, <<130525607, 13044232>>,
       <<106181004, 11664939>>, <<91308961, 66396563>>, <<47731384, 43320450>>, <<54047084, 12182388>>, <<70672006, 51696874>>,
       <<45641402, 22100984>>, <<84568436, 5850281>>, <<27465923, 15463927>>, <<69584155, 20977958>>, <<54233712, 44048865>>,
       <<17766558, 1270729>>, <<22371440, 46200030>>, <<60714579, 14290489>>, <<48782467, 33959719>>, <<51766530, 21069839>>,
       <<124202762, 177979>>, <<38193871, 10290470>>, <<50463778, 25928913>>, <<50318287, 54636101>>, <<127259502, 1281134>>,
       <<132532904, 5397435>>, <<100207417, 35510492>>, <<559371, 46303727>>, <<70480513, 54182105>>, <<128019109, 44939869>>,
       <<33221609, 4515134>>, <<102419012, 39981439>>, <<91147877, 40539814>>, <<72693914, 32422147>>, <<126625199, 21539721>>,
       <<36475195, 46959678>>, <<129191556, 49542360>>, <<39970376, 33627432>>, <<114374246, 48695097>>, <<92743796, 24205822>>,
       <<76389111, 53585981>>, <<59344939, 56204434>>, <<21103897, 53920601>>, <<46313616, 36058430>>, <<117699068, 36019099>> >>,
    \* random.seed(26)
    <<
       <<100299735, 60849772>>, <<27212997, 44257444>>, <<27535928, 29021755>>, <<80632256, 36508187>>, <<7617834, 8581375>>,
       <<104197060, 63831966>>, <<102597527, 32027964>>, <<5601748, 49000961>>, <<91723716, 41836304>>, <<67476280, 11517053>>,
       <<85287810, 28829839>>, <<128007829, 16270528>>, <<132440353, 50179821>>, <<54913930, 48131892>>, <<113299016, 13552214>>,
       <<105535994, 46472804>>, <<130426749, 57440742>>, <<3864345, 44738799>>, <<125882071, 57325807>>, <<29834144, 9677317>>,
       <<17369299, 14528639>>, <<80189438, 32425657>>, <<112589751, 51356519>>, <<128402585, 26083883>>, <<48892665, 16350772>>,
       <<111090597, 39201612>>, <<4132653, 2038934>>, <<129990687, 49460325>>, <<39387514, 56684946>>, <<72948453, 36016850>>,
       <<16688181, 34191899>>, <<5882461, 43244101>>, <<1032110, 31160732>>, <<80551767, 44118005>>, <<75312688, 21046377>>,
       <<109514368, 21420170>>, <<114238051, 44700522>>, <<56834911, 28991799>>, <<113728356, 46511599>>, <<26941738, 3771752>>,
       <<118230991, 63819275>>, <<33627373, 13245690>>, <<126131408, 41891417>>, <<51580984, 58177431>>, <<57453637, 40743480>>,
       <<69567742, 10468299>>, <<7907683, 6672376>>, <<10051682, 8444187>>, <<73140291, 36819585>>, <<95843836, 52288535>>,
       <<6006078, 3154834>>, <<54593208, 14632654>>, <<49656273, 40008182>>, <<104844786, 66519520>>, <<132934198, 61281498>>,
       <<12158543, 57334095>>, <<72972562, 21930518>>, <<13983499, 27329647>>, <<105191827, 3021611>>, <<126462231, 28217608>>,
       <<94821491, 30693945>>, <<78053179, 5021764>>, <<5439040, 23641675>>, <<12920198, 45329578>>, <<32168665, 53236623>>,
       <<10970428, 64503065>>, <<17956394, 45547920>>, <<128756887, 18553434>>, <<46697449, 59085868>>, <<121716547, 54192864>>,
       <<102117547, 40603398>>, <<104072540, 64369619>>, <<122521851, 45764331>>, <<93671971, 29276500>>, <<46660333, 34979066>>,
       <<63038146, 40469870>>, <<52354492, 47714381>>, <<4334652, 64860305>>, <<5917360, 10196325>>, <<76181130, 547189>>,
       <<70161067, 7485221>>, <<130516869, 64486696>>, <<83296664, 63407727>>, <<109882464, 46168006>>, <<63955659, 2232567>>,
       <<78116742, 12283270>>, <<109460889, 40998725>>, <<4572938, 46622191>>, <<2570254, 54228321>>, <<57662843, 3267926>>,
       <<39218673, 65264530>>, <<57457789, 10997760>>, <<8591486, 19578577>>, <<22668187, 60318501>>, <<13213575, 4478600>>,
       <<81700281, 58267918>>, <<4434388, 59054457>>, <<2752978, 56672956>>, <<91362365, 61655218>>, <<56813303, 36615280>>,
       <<3055138, 54064996>>, <<126221623, 18567641>>, <<65846741, 54984992>>, <<125772949, 21585788>>, <<87046436, 42094307>>,
       <<73407724, 48337581>>, <<53043099, 1944256>>, <<13506176, 7439712>>, <<129628453, 13884084>>, <<59008486, 15963934>>,
       <<41087910, 15727970>>, <<19526505, 56257676>>, <<79964824, 33565576>>, <<131967624, 25894866>>, <<53933684, 41841392>>,
       <<108322079, 21227147>>, <<93931832, 5468186>>, <<69137032, 61741220>>, <<87691471, 4430747>>, <<98294034, 10361983>>,
       <<124599207, 46223421>>, <<5922886, 1590257>>, <<19305613, 26648236>>, <<32527851, 21705757>>, <<9030682, 13451093>>,
       <<37733024, 21733073>>, <<58437134, 31563729>>, <<29309570, 44042011>>, <<67033252, 16072009>>, <<904583, 35227392>>,
       <<122666690, 65435787>>, <<95906720, 6728740>>, <<13906830, 1558681>>, <<28596290, 14219174>>, <<101684780, 6683835>>,
       <<19158569, 37267418>>, <<98542425, 9014200>>, <<5074191, 64703932>>, <<83482263, 65258876>>, <<91336047, 48825225>>,
       <<72664849, 11087722>>, <<106648514, 11011056>>, <<126111670, 35142350>>, <<132235577, 3712582>>, <<7133604, 26048037>>,
       <<65037729, 36037160>>, <<15575445, 27988288>>, <<99882792, 49436044>>, <<27633588, 22970849>>, <<22517412, 15478874>>,
       <<7958520, 36751182>>, <<2092982, 20407696>>, <<35088721, 27994046>>, <<26206261, 45229027>>, <<70297134, 29369314>>,
       <<109991019, 39181437>>, <<96774847, 33058760>>, <<43522490, 64912389>>, <<34361812, 51110268>>, <<104549875, 52838127>>,
       <<36947736, 60583584>>, <<86990115, 19597101>>, <<130260090, 54924740>>, <<77893331, 55674013>>, <<63464980, 52950260>>,
       <<6594137, 55956970>>, <<35133722, 27146564>>, <<127398867, 59339577>>, <<7633225, 52394819>>, <<7258172, 66965743>>,
       <<80891741, 53541880>>, <<41291188, 12484835>>, <<80366222, 19904316>>, <<31189825, 65436193>>, <<29502723, 38134502>>,
       <<33812041, 33835042>>, <<95867072, 28126410>>, <<93146491, 40694231>>, <<3775998, 40802993>>, <<95179729, 21487532>>,
       <<102343309, 14072584>>, <<62810126, 19906825>>, <<12706216, 55787381>>, <<1788093, 51134116>>, <<131392920, 34589936>>,
       <<13359265, 56238467>>, <<146281, 58139459>>, <<8098064, 49920420>>, <<121911526, 45985935>>, <<134077610, 39997771>>,
       <<102092457, 39320767>>, <<126034912, 53728976>>, <<108590657, 62548722>>, <<9688340, 9037685>>, <<50856809, 45825909>>,
       <<86047174, 64041969>>, <<92387728, 5620197>>, <<102544689, 46985814>>, <<92937247, 23748515>>, <<15879044, 32463974>>,
       <<53124668, 33234017>>, <<127007321, 51065087>>, <<86475716, 58246585>>, <<25512622, 51944196>>, <<56039228, 16901274>>,
       <<128216965, 40099701>>, <<35062315, 50630007>>, <<13501738, 42613456>>, <<108903483, 33020721>>, <<87254319, 4614750>>,
       <<49528822, 55088308>>, <<62682893, 14878725>>, <<35764650, 9543814>>, <<92725951, 7326501>>, <<40384065, 51239324>>,
       <<73996018, 14775161>>, <<123818004, 49143650>>, <<88223850, 37951305>>, <<47162713, 66539420>>, <<18289724, 55548886>>,
       <<66762302, 65311225>>, <<6523246, 39513984>>, <<103725190, 41546161>>, <<62713481, 7209555>>, <<59992274, 32376344>>,
       <<40014652, 14968589>>, <<94112964, 56158289>>, <<59721649, 50021916>>, <<59329373, 32326809>>, <<27714931, 10907682>>,
       <<10592041, 18550850>>, <<10269057, 40201112>>, <<31253380, 38233637>>, <<99257429, 55102209>>, <<88929955, 54153115>>,
       <<26146218, 51722562>>, <<4325943, 7120286>>, <<36195930, 52187374>>, <<91628542, 43319132>>, <<33009263, 38287397>>,
       <<61709403, 58410208>>, <<15925304, 11906387>>, <<105910567, 23656452>>, <<77338830, 27686171>>, <<59114598, 59674991>>,
       <<132750773, 28386781>>, <<68249825, 13206860>>, <<36978272, 14540196>>, <<91759169, 6746085>>, <<127641692, 46880557>>,
       <<83858255, 52344277>>, <<123807943, 8815007>>, <<74054636, 26670118>>, <<40002565, 32757120>>, <<86190528, 63799178>>,
       <<8984951, 30230146>>, <<132289535, 35639968>>, <<67544690, 61652037>>, <<4416393, 63507362>>, <<40625590, 9807028>>,
       <<83653985, 43361649>>, <<114805096, 63649662>>, <<123421885, 42076626>>, <<49031506, 43029817>>, <<119865557, 33326749>>,
       <<68225438, 24143126>>, <<76972772, 23793350>>, <<116818022, 43037189>>, <<96199640, 58036773>>, <<75929299, 44694280>>,
       <<2169883, 45212628>>, <<45393591, 66036330>>, <<99884401, 51123834>>, <<55729755, 47660897>>, <<3646837, 49893120>>,
       <<115177729, 761890>>, <<48701535, 10747361>>, <<99061828, 64749655>>, <<46744257, 66086021>>, <<49239601, 16173371>>,
       <<79291035, 9358331>>, <<68844255, 3958184>>, <<124041739, 49900138>>, <<78698198, 34217124>>, <<47501750, 27582634>>,
       <<74591517, 5243622>>, <<101061996, 9602807>>, <<98904778, 65060474>>, <<1984497, 15664459>>, <<69853173, 47276204>>,
       <<119982732, 40940179>>, <<63169359, 33112233>>, <<21449144, 52564298>>, <<19165715, 39120751>>, <<71815320, 7076989>>,
       <<108826147, 60571147>>, <<102747020, 25231515>>, <<52741215, 17242902>>, <<7140375, 46607749>>, <<41459864, 27872077>>,
       <<79412360, 19723307>>, <<66190327, 38951232>>, <<53388822, 39532876>>, <<27394160, 3793242>>, <<60631911, 18382398>>,
       <<21504343, 51253972>>, <<85303542, 16484453>>, <<19971956, 52732980>>, <<20263146, 24896349>>, <<125522065, 37912039>>,
       <<3151984, 60339142>>, <<47562535, 36017976>>, <<66583591, 41695930>>, <<13970177, 10833253>>, <<48487415, 23813132>>,
       <<118924717, 52683108>>, <<103163603, 56675678>>, <<44765838, 43167748>>, <<52339199, 32511373>>, <<36984167, 19386075>>,
       <<112037902, 28325214>>, <<42347314, 27800891>>, <<101527515, 63095980>>, <<129305284, 33535423>>, <<38422280, 20726603>>,
       <<84719152, 54543934>>, <<109056331, 42196549>>, <<72054225, 18395914>>, <<124618326, 26098038>>, <<37620876, 61785205>>,
       <<63296757, 32742967>>, <<47756676, 46309255>>, <<38770875, 45301136>>, <<128039211, 39603189>>, <<8070234, 61377821>>,
       <<48007959, 26771974>>, <<132139881, 38770149>>, <<35630862, 53794843>>, <<90017991, 12292498>>, <<117206026, 44142464>>,
       <<31631474, 39970540>>, <<28573394, 32031392>>, <<91149285, 13571097>>, <<8795615, 5638684>>, <<81704827, 24512389>>,
       <<119339870, 10375350>>, <<121483283, 58858186>>, <<121663051, 13026539>>, <<64698941, 22884534>>, <<109372631, 3936332>>,
       <<128974075, 47996057>>, <<94158416, 33052585>>, <<34144680, 54720164>>, <<102132835, 15880922>>, <<69034868, 20433269>>,
       <<57334729, 49875265>>, <<22031713, 65870406>>, <<110529188, 36558115>>, <<89601377, 59984452>>, <<4977707, 25511318>>,
       <<27094192, 64183763>>, <<5410440, 54987143>>, <<73099447, 3880712>>, <<96507927, 47596434>>, <<45905665, 22831392>>,
       <<25299403, 24529523>>, <<52400985, 27390175>>, <<82167349, 19621322>>, <<6515083, 66034399>>, <<10780137, 5451605>>,
       <<88783099, 22014631>>, <<121825255, 23713991>>, <<76877893, 52686105>>, <<10259444, 31183387>>, <<68615221, 236912>>,
       <<35676343, 2038591>>, <<72727901, 41980519>>, <<35273278, 7993033>>, <<34510579, 51569232>>, <<129000835, 31413620>>,
       <<48433870, 20444340>>, <<59733222, 20227917>>, <<133554395, 64460431>>, <<59637673, 59373169>>, <<44999411, 20229971>>,
       <<35433758, 43846947>>, <<21138386, 20513745>>, <<112142775, 18282707>>, <<126435265, 33453231>>, <<79815440, 627208>>,
       <<83450318, 23450284>>, <<14633925, 62798441>>, <<8903049, 53742036>>, <<49314667, 58915441>>, <<8179132, 6148524>>,
       <<95473205, 3116845>>, <<95356976, 60471122>>, <<113894515, 50344664>>, <<51076883, 15766158>>, <<66988812, 47590374>>,
       <<7992664, 38503074>>, <<56084902, 5016416>>, <<121984984, 27378811>>, <<29714560, 50597427>>, <<78234849, 34480141>>,
       <<73016249, 44742532>>, <<31277771, 32951909>>, <<39383057, 31765787>>, <<13670277, 52884913>>, <<112024309, 19257380>>,
       <<117098640, 38855012>>, <<112949846, 11488278>>, <<120775366, 6113317>>, <<3052511, 43764653>>, <<13641288, 1606215>>,
       <<39417434, 61018061>>, <<19663583, 39149728>>, <<91460195, 10310980>>, <<80710409, 44564851>>, <<45311098, 52821009>>,
       <<133376749, 20010720>>, <<2123519, 56835670>>, <<28460381, 38182748>>, <<23721673, 64321297>>, <<6879923, 35399783>>,
       <<39974859, 45478621>>, <<89963743, 29360776>>, <<131574770, 65689224>>, <<73405810, 62747658>>, <<29943375, 13424793>>,
       <<69625959, 13359356>>, <<75064267, 19176458>>, <<24629012, 4763367>>, <<90022952, 33898855>>, <<117817865, 8196290>>,
       <<90758258, 44654990>>, <<14945676, 28106882>>, <<75521419, 4031>>, <<129820847, 4086830>>, <<96904562, 28747960>>,
       <<46406211, 12383994>>, <<34905394, 39487539>>, <<105747078, 55393922>>, <<39173723, 889755>>, <<130156884, 65465608>>,
       <<128206871, 26223547>>, <<78153790, 18960116>>, <<19635127, 28822294>>, <<81850340, 23995423>>, <<71770547, 63159988>>,
       <<1475586, 23739632>>, <<7359016, 21537480>>, <<63122922, 29040182>>, <<60527975, 20479790>>, <<17361199, 14347322>>,
       <<103708147, 7600715>>, <<86228091, 65586484>>, <<35309264, 59024633>>, <<104388818, 32076807>>, <<77632476, 38766650>>,
       <<48749042, 16136814>>, <<86591869, 652686>>, <<17068423, 8599042>>, <<6639309, 40347747>>, <<91291058, 41297040>>,
       <<68691784, 4282655>>, <<48969830, 39726610>>, <<57999825, 35195228>>, <<86489103, 35386781>>, <<17680815, 8910298>>,
       <<86001550, 39165739>>, <<19354042, 45962244>>, <<124565531, 39828295>>, <<36135215, 49590389>>, <<82580233, 20955896>>,
       <<82919838, 51485369>>, <<11632853, 45283096>>, <<18907643, 62952325>>, <<124494814, 22764744>>, <<130936828, 34549855>>,
       <<114288566, 44997634>>, <<115852323, 27131396>>, <<123927942, 12867576>>, <<44467051, 57035620>>, <<27060219, 59390406>>,
       <<23645176, 58433348>>, <<46013529, 60913749>>, <<18642354, 53355612>>, <<52168194, 31969904>>, <<97657896, 33703245>>,
       <<68491268, 24593197>>, <<9150708, 46098933>>, <<113384391, 26783631>>, <<36856452, 34075416>>, <<119605019, 52501777>>,
       <<10216324, 4042723>>, <<1697667, 25582869>>, <<38105483, 33720704>>, <<85993583, 59144106>>, <<124570341, 12898316>>,
       <<72730223, 53051635>>, <<105783727, 34838159>>, <<5904918, 40829528>>, <<42555841, 6655072>>, <<59830971, 19182715>>,
       <<29994496, 21543194>>, <<6777904, 52992403>>, <<6011422, 39671021>>, <<24677684, 19229321>>, <<25851649, 32847226>>,
       <<46293410, 65040743>>, <<2735008, 64180004>>, <<79277137, 22975926>>, <<111870481, 61914954>>, <<90754064, 25179210>>,
       <<37304904, 48018303>>, <<65909387, 7449019>>, <<112209609, 29604906>>, <<40892188, 34896629>>, <<77962186, 51576544>>,
       <<51735702, 14820035>>, <<40962776, 23026959>>, <<54696674, 49945646>>, <<111735876, 15142562>>, <<106124017, 66190500>>,
       <<12437857, 34855570>>, <<92560479, 298578>>, <<106672834, 44410278>>, <<82557831, 44724807>>, <<17565715, 32534810>>,
       <<120616559, 46774981>>, <<49677592, 43954200>>, <<64097738, 38140134>>, <<85310921, 47775449>>, <<32171750, 18877352>>,
       <<8593232, 17840147>>, <<128573919, 45932635>>, <<84534544, 55298714>>, <<14005241, 13623822>>, <<3442093, 14286190>>,
       <<99092395, 61449900>>, <<6677400, 23301519>>, <<131142417, 25226048>>, <<60011295, 37495845>>, <<97366971, 37575816>>,
       <<86856380, 43931258>>, <<126535197, 3921651>>, <<55897819, 32432630>>, <<119301980, 42004177>>, <<63968467, 35621392>>,
       <<46028962, 50880980>>, <<64355508, 14466173>>, <<35565240, 64640624>>, <<38219267, 29625664>>, <<93722262, 9372967>>,
       <<115747656, 66521270>>, <<17963151, 30535222>>, <<72148151, 8749758>>, <<91347523, 63776275>>, <<77901093, 43231630>>,
       <<98781331, 45503210>>, <<97033234, 12308508>>, <<64585066, 35814397>>, <<8048141, 13217692>>, <<105362412, 64209599>>,
       <<30817621, 6626615>>, <<16046969, 8667154>>, <<118808893, 15560506>>, <<118386334, 32792621>>, <<55110775, 36177750>>,
       <<65246898, 64803029>>, <<46823956, 53879654>>, <<104665062, 58928472>>, <<67964087, 56668225>>, <<124339491, 57800904>>,
       <<118218151, 29358538>>, <<31851575, 59753709>>, <<94827925, 54954400>>, <<73059546, 60003601>>, <<70899838, 57864393>>,
       <<19070878, 24835766>>, <<6778885, 10492909>>, <<22777561, 36513659>>, <<62250888, 4063592>>, <<71470774, 45955601>>,
       <<119333863, 38997050>>, <<92332913, 30624461>>, <<24302060, 51992179>>, <<53241383, 27759043>>, <<129993951, 59685090>>,
       <<18558256, 25107233>>, <<28187173, 44783988>>, <<53587424, 21898374>>, <<120667711, 66187725>>, <<39448627, 41898409>>,
       <<111950338, 51075807>>, <<89338155, 18288129>>, <<5121278, 20169800>>, <<15262695, 26499886>>, <<98822309, 50709264>> >>,
    \* random.seed(27)
    <<
       <<87039823, 32204329>>, <<94136226, 18603815>>, <<128452674, 19191513>>, <<26360779, 4962635>>, <<8773710, 17072816>>,
       <<110629959, 36209510>>, <<44703449, 16972686>>, <<49979288, 55978981>>, <<109369439, 27038275>>, <<24606776, 16632181>>,
       <<122095377, 16094702>>, <<65923653, 55119317>>, <<9574718, 48971917>>, <<123186690, 42786248>>, <<76906558, 43904980>>,
       <<10567246, 40989819>>, <<112552227, 28535566>>, <<103993916, 28045245>>, <<99343840, 3537450>>, <<88251941, 29493162>>,
       <<133238640, 23468700>>, <<1624509, 56708166>>, <<130785918, 54764780>>, <<86268187, 32112314>>, <<33948892, 9229374>>,
       <<82200839, 63096231>>, <<45343082, 40937846>>, <<87283706, 15265351>>, <<94522441, 54661292>>, <<70361450, 9460425>>,
       <<13252437, 65478974>>, <<52605415, 50462224>>, <<40538578, 61162219>>, <<100584252, 53406949>>, <<124987150, 2521611>>,
       <<104106420, 45622928>>, <<71200366, 5698609>>, <<22841474, 30841362>>, <<94964317, 10174804>>, <<35575405, 36257830>>,
       <<133854830, 3417536>>, <<23207496, 65463747>>, <<129954734, 43641610>>, <<2019833, 30337894>>, <<104651027, 10148077>>,
       <<46487307, 59704904>>, <<77051201, 38564980>>, <<55809337, 4361001>>, <<41327803, 66881911>>, <<58745089, 58547862>>,
       <<109494937, 31381171>>, <<47339429, 851332>>, <<48443632, 10534716>>, <<104882391, 17810935>>, <<23851626, 32414150>>,
       <<47968938, 58973666>>, <<69317577, 4125878>>, <<69437820, 16726523>>, <<22811056, 13955620>>, <<102600102, 49332360>>,
       <<65650714, 37293405>>, <<12273907, 22453857>>, <<45414884, 51253698>>, <<7677157, 26379164>>, <<46135931, 42678521>>,
       <<15342647, 20264631>>, <<34138490, 53439279>>, <<74612030, 46663530>>, <<92548598, 5529848>>, <<40241080, 30640524>>,
       <<62203749, 19110289>>, <<68883097, 7875423>>, <<78631468, 1509385>>, <<121728202, 19123902>>, <<29071564, 59363574>>,
       <<103799750, 32053743>>, <<74393033, 36414760>>, <<120062032, 65000797>>, <<91954064, 8115606>>, <<522028, 39764123>>,
       <<7717181, 25023989>>, <<106990403, 12726643>>, <<39750015, 46948513>>, <<82436473, 57380367>>, <<13032101, 2155112>>,
       <<75450948, 28380873>>, <<55115600, 50062771>>, <<61820176, 49429741>>, <<465639, 12127000>>, <<120223043, 64362116>>,
       <<113276419, 23603825>>, <<99608178, 974907>>, <<83347322, 12764328>>, <<30448661, 25566812>>, <<25745099, 66447308>>,
       <<112461207, 50093773>>, <<44205355, 55769073>>, <<51497971, 55452629>>, <<118112337, 4214381>>, <<46286707, 66110805>>,
       <<133289329, 2849734>>, <<24624019, 4197729>>, <<114297103, 5257061>>, <<39520339, 15618543>>, <<18418789, 63748548>>,
       <<62058113, 40590680>>, <<110656078, 32047075>>, <<13754723, 15600481>>, <<79842437, 24728378>>, <<114866316, 18815899>>,
       <<4076035, 44225368>>, <<65892636, 10825726>>, <<41914654, 35900517>>, <<62738660, 14351037>>, <<111558334, 65914025>>,
       <<58675227, 53997214>>, <<40799912, 44983611>>, <<27308787, 34184567>>, <<109643697, 54379097>>, <<20164084, 48230309>>,
       <<96019392, 22284045>>, <<133629070, 38155914>>, <<92846650, 3895485>>, <<120952632, 15220519>>, <<16776724, 31498216>>,
       <<81616007, 41310389>>, <<81609047, 46925549>>, <<10639908, 16382059>>, <<58213804, 21334320>>, <<41093716, 2930568>>,
       <<16936580, 6943990>>, <<53767227, 59681530>>, <<11654303, 25125975>>, <<123493042, 13697360>>, <<22269933, 50561154>>,
       <<73257370, 49440168>>, <<95245023, 64186538>>, <<2724673, 12576046>>, <<126339592, 29798108>>, <<123433666, 3391470>>,
       <<77880140, 40101554>>, <<69936460, 54926075>>, <<114171266, 29787802>>, <<80782851, 3403248>>, <<29779570, 18811449>>,
       <<124828801, 36262883>>, <<27202141, 6325435>>, <<74950753, 40155735>>, <<73314448, 66096211>>, <<102835721, 29773641>>,
       <<49076493, 22125902>>, <<85209409, 33720065>>, <<27983283, 26299780>>, <<93398963, 12803512>>, <<21715451, 565976>>,
       <<46924498, 16150300>>, <<69944209, 13451052>>, <<97494268, 21599005>>, <<121927012, 66722025>>, <<129243283, 25501584>>,
       <<63149149, 22686723>>, <<8882483, 16425050>>, <<79852511, 4935557>>, <<78132892, 51371976>>, <<98398391, 58408116>>,
       <<6437617, 46778116>>, <<106811233, 42410035>>, <<17464013, 3148765>>, <<111658981, 40588124>>, <<131613807, 32872139>>,
       <<73081057, 6289797>>, <<60097819, 6951776>>, <<88409744, 50216792>>, <<18022211, 20612521>>, <<88328747, 38491962>>,
       <<114053711, 32618610>>, <<125444088, 65548019>>, <<94183470, 22256587>>, <<96391482, 35526366>>, <<129368237, 36262158>>,
       <<51318569, 55863040>>, <<45103547, 41775530>>, <<133085862, 61576591>>, <<8507786, 33546370>>, <<46383577, 24269013>>,
       <<99772201, 32359702>>, <<126489671, 20200103>>, <<107126667, 32723036>>, <<25245670, 41269024>>, <<107092574, 43888180>>,
       <<29701439, 65562625>>, <<70902867, 49252992>>, <<82413959, 37319751>>, <<132040959, 16108772>>, <<29919571, 48937814>>,
       <<46866170, 7252525>>, <<41378094, 46423543>>, <<39630673, 43119784>>, <<22135730, 51291827>>, <<54120600, 32789980>>,
       <<35758406, 28196003>>, <<35144906, 1907143>>, <<111806316, 12060160>>, <<14698332, 35324724>>, <<61955620, 35832232>>,
       <<5522609, 51195818>>, <<7618608, 29953643>>, <<113882618, 16188459>>, <<105247685, 17631087>>, <<124781635, 6639306>>,
       <<14873778, 10226960>>, <<104303906, 16385949>>, <<39971985, 36995935>>, <<105953922, 47570641>>, <<76022509, 55005457>>,
       <<58129903, 66791879>>, <<83150296, 62434423>>, <<34731810, 18407854>>, <<71798808, 2737705>>, <<112995525, 11674427>>,
       <<86522348, 3738451>>, <<101295057, 30639278>>, <<129652574, 48999780>>, <<16602042, 5726805>>, <<103895906, 16398018>>,
       <<128813818, 53158361>>, <<72452944, 60037115>>, <<45161700, 45981501>>, <<85666010, 10073906>>, <<14803331, 48427417>>,
       <<101671217, 1560366>>, <<99617105, 15277171>>, <<3288447, 54834152>>, <<71484486, 17206057>>, <<66264521, 22776884>>,
       <<98194175, 196490>>, <<57120037, 42314511>>, <<11431664, 35836094>>, <<2971087, 25063926>>, <<37758275, 45113793>>,
       <<12835877, 8328903>>, <<23953269, 55947407>>, <<82067791, 53312672>>, <<118818351, 10089321>>, <<23680101, 1282442>>,
       <<75186724, 19149620>>, <<65303332, 55707931>>, <<86634460, 49881786>>, <<128626162, 3016761>>, <<49976263, 46717225>>,
       <<78708459, 8284060>>, <<66090101, 43354732>>, <<20300053, 22049707>>, <<62420935, 22655179>>, <<130022496, 18839369>>,
       <<99062765, 49562351>>, <<26860127, 39671406>>, <<44752523, 17375023>>, <<25871018, 52010644>>, <<55073503, 33686697>>,
       <<61847151, 35922009>>, <<18191718, 4372625>>, <<57842607, 43633657>>, <<132168015, 29194005>>, <<52647389, 57074706>>,
       <<85768539, 45112291>>, <<131065139, 39480661>>, <<51677734, 66060377>>, <<45783480, 29186108>>, <<58482101, 58059409>>,
       <<21500545, 60588058>>, <<9408645, 8267402>>, <<18750095, 61286352>>, <<92200399, 28852043>>, <<104776485, 12627202>>,
       <<103660268, 49817584>>, <<19067825, 60232356>>, <<37960377, 32948805>>, <<122146080, 34168535>>, <<96866636, 62786529>>,
       <<52271815, 22271209>>, <<100071800, 12021812>>, <<35976288, 22438030>>, <<12578303, 6795192>>, <<121769479, 58542795>>,
       <<115767116, 4759466>>, <<66325641, 11096715>>, <<56222881, 1896340>>, <<122838492, 34895383>>, <<74789590, 992500>>,
       <<130043024, 57349897>>, <<1400265, 43266175>>, <<87024931, 12346856>>, <<34143898, 33923110>>, <<95822533, 32712610>>,
       <<123503791, 64204849>>, <<2856136, 20598695>>, <<90118572, 53523827>>, <<109432182, 53215009>>, <<64921977, 59266611>>,
       <<16472438, 57748983>>, <<66467573, 36794223>>, <<93248391, 27330503>>, <<72200551, 26330353>>, <<75696104, 26092305>>,
       <<43457630, 58355884>>, <<43844169, 37237267>>, <<32777736, 110786>>, <<97719862, 16911569>>, <<1577100, 46008799>>,
       <<80131269, 54815122>>, <<89128236, 56899870>>, <<60089307, 1439483>>, <<56669183, 11070579>>, <<104435439, 45489552>>,
       <<67471899, 25277178>>, <<7698203, 14797397>>, <<96845463, 44814324>>, <<130385296, 35958290>>, <<131794290, 28242944>>,
       <<115567437, 36944004>>, <<5814229, 33614792>>, <<75422485, 18457271>>, <<25207973, 41722507>>, <<110764308, 58551002>>,
       <<17163148, 8692501>>, <<67268888, 47452583>>, <<120040645, 32751913>>, <<25909446, 646882>>, <<101572718, 33449210>>,
       <<130994120, 36901029>>, <<58797188, 62780701>>, <<65858320, 12910988>>, <<10927740, 41705071>>, <<122672816, 25736268>>,
       <<21430726, 13993821>>, <<100506586, 32505458>>, <<96589284, 56542788>>, <<36170358, 15737033>>, <<131692067, 20555415>>,
       <<124445904, 31397208>>, <<83812124, 34765360>>, <<56061151, 3317114>>, <<65389281, 25503418>>, <<59260371, 39436708>>,
       <<88674023, 50801756>>, <<132473383, 13856375>>, <<12833851, 20051692>>, <<37693672, 49477625>>, <<71301052, 52642650>>,
       <<83734706, 9725046>>, <<93256623, 3443802>>, <<123358596, 7471588>>, <<112025446, 7479670>>, <<49152871, 30772504>>,
       <<54935124, 37722002>>, <<75440516, 31986471>>, <<124814986, 26958709>>, <<29543426, 27555452>>, <<19500014, 45270361>>,
       <<41428320, 4560785>>, <<95202572, 31049527>>, <<85316193, 17397595>>, <<58635073, 54431274>>, <<66843304, 47707542>>,
       <<90989341, 47061014>>, <<114846770, 56052096>>, <<4817539, 57386456>>, <<68338223, 66500541>>, <<4437563, 37165784>>,
       <<103093926, 46635167>>, <<66209081, 63525615>>, <<123416232, 49372526>>, <<92869571, 53711787>>, <<105049689, 424509>>,
       <<65334028, 5274393>>, <<103502146, 45057413>>, <<33939681, 12250445>>, <<22753260, 18819138>>, <<79120271, 48683421>>,
       <<66601023, 64581422>>, <<72825223, 56419518>>, <<108462413, 40329021>>, <<73170506, 30177597>>, <<90625060, 33102315>>,
       <<91746091, 25608186>>, <<56964561, 66741520>>, <<107049477, 58003694>>, <<90926815, 54910022>>, <<81543758, 36266640>>,
       <<117938661, 46822873>>, <<88961163, 6404590>>, <<61266314, 42673131>>, <<33402799, 31745537>>, <<114852049, 1205041>>,
       <<127978669, 57433240>>, <<56206786, 14506367>>, <<80306801, 3008592>>, <<78466084, 55928247>>, <<98262303, 25241762>>,
       <<71662946, 21995821>>, <<94271954, 5957512>>, <<106954966, 34265814>>, <<35158035, 37920774>>, <<95606207, 42166845>>,
       <<104856133, 19075810>>, <<80649513, 33023215>>, <<126349364, 63531895>>, <<123576965, 24560729>>, <<32612499, 57218554>>,
       <<55657145, 49868417>>, <<118750869, 6592116>>, <<114807080, 23623471>>, <<28113202, 58962142>>, <<29174607, 25382560>>,
       <<21390447, 4370908>>, <<132760630, 32318781>>, <<6930995, 15634422>>, <<108746822, 3881666>>, <<100283659, 22238952>>,
       <<65860453, 52766511>>, <<8073480, 3781306>>, <<59483290, 61716531>>, <<129173694, 9693705>>, <<15956790, 32948020>>,
       <<56669874, 2222758>>, <<102864522, 7419311>>, <<32817336, 28505251>>, <<46563474, 25724969>>, <<69487469, 31799836>>,
       <<59700623, 44887655>>, <<87841160, 36989783>>, <<128775148, 45072407>>, <<491974, 51813678>>, <<94586573, 34676152>>,
       <<53226374, 55053416>>, <<15863246, 19905169>>, <<91222960, 58398732>>, <<96399641, 42917270>>, <<101071994, 63631729>>,
       <<76239562, 26168647>>, <<2075172, 31281029>>, <<38552691, 44479408>>, <<101663344, 65320622>>, <<26338588, 54335636>>,
       <<90050102, 15543363>>, <<43123353, 7705063>>, <<74728549, 32992054>>, <<98421305, 7076342>>, <<44733717, 4746568>>,
       <<15785673, 28219808>>, <<129424514, 31088880>>, <<60937998, 13008527>>, <<107860163, 11418311>>, <<18229941, 4391593>>,
       <<89902019, 49261529>>, <<106832711, 37394593>>, <<75946174, 65204461>>, <<94822798, 49008638>>, <<128764017, 15128913>>,
       <<498784, 9200612>>, <<80530848, 14877221>>, <<102970205, 18445081>>, <<116359579, 34984387>>, <<83960806, 41485177>>,
       <<87036588, 35496309>>, <<104245480, 62174116>>, <<20014070, 12963992>>, <<45625062, 5552084>>, <<13041348, 4424343>>,
       <<34292548, 9612306>>, <<10230101, 6351208>>, <<25070248, 49300461>>, <<88852086, 65696715>>, <<24914688, 33566943>>,
       <<27666372, 19981049>>, <<75676823, 3448410>>, <<45627193, 5145157>>, <<21695426, 48759070>>, <<14017958, 1096258>>,
       <<120032232, 59796026>>, <<72411017, 50532697>>, <<25138701, 65723540>>, <<30411084, 2508489>>, <<38220935, 1947140>>,
       <<126426007, 7355407>>, <<104079944, 3349479>>, <<43203908, 42521609>>, <<39308769, 64442156>>, <<107415477, 25603045>>,
       <<51409960, 9661520>>, <<64132921, 52012659>>, <<48995724, 28117274>>, <<54415103, 17979396>>, <<122941868, 27127040>>,
       <<84028527, 25973427>>, <<128749195, 15853028>>, <<54521330, 41070569>>, <<132951774, 48418608>>, <<95551891, 3840238>>,
       <<111191809, 650414>>, <<59193461, 17728258>>, <<32243754, 40254998>>, <<115046231, 56638418>>, <<17661887, 12348162>>,
       <<76707802, 7754002>>, <<66048299, 46848456>>, <<132965369, 44165254>>, <<97867867, 12217467>>, <<100241143, 49290779>>,
       <<8881542, 63446422>>, <<47965059, 51255271>>, <<90347312, 22150451>>, <<122896603, 673823>>, <<104964519, 29832546>>,
       <<129000141, 18864853>>, <<111101260, 4267362>>, <<71026798, 66572412>>, <<130442424, 30241477>>, <<27978340, 34256222>>,
       <<67578600, 29608076>>, <<32198698, 43483689>>, <<119322393, 52649392>>, <<69891428, 44584874>>, <<41543888, 16260820>>,
       <<128172339, 29910313>>, <<33398386, 56431590>>, <<123660223, 61069557>>, <<79188115, 64103553>>, <<112313695, 16272633>>,
       <<128171493, 34481930>>, <<67485514, 34877971>>, <<18355565, 48582966>>, <<85911969, 15229724>>, <<109100858, 31131647>>,
       <<21754268, 34087943>>, <<17624036, 38246094>>, <<16102644, 60447920>>, <<58450780, 40954606>>, <<104335941, 16769115>>,
       <<122738409, 28841670>>, <<21309768, 24889204>>, <<65693612, 54832393>>, <<70506468, 60185961>>, <<116274836, 9867606>>,
       <<1522235, 847613>>, <<3880315, 37255912>>, <<40961223, 5066857>>, <<21185477, 32656590>>, <<51976833, 48377968>>,
       <<25779636, 19868863>>, <<129778400, 34795724>>, <<25232893, 20455405>>, <<119917596, 51738090>>, <<40687134, 17186155>>,
       <<14878587, 26429032>>, <<42466389, 40328111>>, <<119809520, 41438391>>, <<131851649, 47713520>>, <<76191989, 57311061>>,
       <<95202348, 13685926>>, <<83351923, 30996164>>, <<91038242, 30473579>>, <<122996651, 6515041>>, <<87888614, 53325122>>,
       <<122141583, 11035976>>, <<50954684, 15894391>>, <<84940460, 47258034>>, <<61740128, 128615>>, <<72347099, 3131157>>,
       <<22023992, 32342214>>, <<106521555, 26846950>>, <<73892072, 59094288>>, <<105340033, 64827499>>, <<96041438, 34333509>>,
       <<53982223, 66525286>>, <<2323802, 352465>>, <<133116595, 2278509>>, <<78621601, 36184865>>, <<20295458, 29230670>>,
       <<78222850, 13663076>>, <<42465044, 56634297>>, <<31157071, 41910026>>, <<29892968, 13983350>>, <<83078888, 11034852>>,
       <<23767449, 6553546>>, <<86997918, 47386333>>, <<30028985, 39707872>>, <<9088215, 62973979>>, <<108560458, 47452518>>,
       <<4308641, 22636002>>, <<64608915, 37328848>>, <<16241289, 32225218>>, <<61913687, 60359039>>, <<120294278, 57554167>>,
       <<73692450, 19337444>>, <<114905044, 50191995>>, <<80962091, 60740981>>, <<32321936, 10068791>>, <<20326615, 48987145>> >>,
    \* random.seed(28)
    <<
       <<15160854, 49818531>>, <<17562680, 36618321>>, <<80162999, 47787667>>, <<23896852, 15193890>>, <<17783408, 42811050>>,
       <<62290253, 51248179>>, <<56045024, 14154710>>, <<28632553, 9684879>>, <<52570025, 10930285>>, <<113046751, 64103198>>,
       <<17596245, 40694972>>, <<25177394, 13504177>>, <<3730772, 27313271>>, <<32197101, 4667010>>, <<12748693, 28212106>>,
       <<132169565, 60255832>>, <<42218877, 46743171>>, <<132742732, 55385631>>, <<17372918, 11837388>>, <<121332831, 62603854>>,
       <<67975038, 34878250>>, <<92687241, 48511988>>, <<88881336, 53508067>>, <<36331065, 41096533>>, <<31212822, 61576516>>,
       <<91195498, 30128350>>, <<17639632, 13425386>>, <<1776211, 62718874>>, <<103488909, 19079144>>, <<84965108, 45337709>>,
       <<34911809, 5278676>>, <<69839015, 35810422>>, <<122126511, 61270128>>, <<37434583, 48697519>>, <<16618718, 38647561>>,
       <<56000648, 59466983>>, <<22486762, 13563839>>, <<49406588, 4645381>>, <<4378397, 28811324>>, <<102507617, 56085932>>,
       <<108243164, 32760039>>, <<50150318, 10704477>>, <<50671352, 53515412>>, <<34561525, 56141067>>, <<128027641, 25918668>>,
       <<117808180, 33846735>>, <<88905107, 45019560>>, <<23481773, 15452695>>, <<23134340, 20715046>>, <<102985560, 39404374>>,
       <<25468408, 50291747>>, <<92414985, 35927880>>, <<56510661, 63391817>>, <<4168016, 14905486>>, <<26531238, 4120682>>,
       <<122586722, 64603720>>, <<43267083, 24079674>>, <<90548734, 46494332>>, <<102223486, 60143171>>, <<53496521, 7133235>>,
       <<66991517, 54694618>>, <<115451218, 9998042>>, <<97578517, 33455775>>, <<69921258, 13827843>>, <<73103343, 53052112>>,
       <<60162267, 38148851>>, <<57247608, 10688175>>, <<90064202, 27999017>>, <<32697375, 31242628>>, <<116165791, 61828618>>,
       <<39508150, 31380304>>, <<31047871, 15841602>>, <<129343858, 2239235>>, <<2028139, 29225979>>, <<54641396, 46133127>>,
       <<74164769, 16933792>>, <<59036270, 9230259>>, <<111334263, 57060835>>, <<90399060, 35018573>>, <<67680935, 61850864>>,
       <<477460, 43507153>>, <<132157502, 30543656>>, <<49053960, 45247445>>, <<48294591, 5724302>>, <<29472774, 27097988>>,
       <<26367212, 37355627>>, <<13774210, 41540685>>, <<17631471, 7941751>>, <<90261281, 43287696>>, <<39764455, 58451516>>,
       <<68565508, 40729673>>, <<87588035, 30003768>>, <<9677700, 10262693>>, <<102007156, 51274852>>, <<26071020, 11467209>>,
       <<108023773, 34964909>>, <<119169831, 5834550>>, <<60538669, 33982269>>, <<42883987, 63513576>>, <<67905620, 32370306>>,
       <<120807206, 49479661>>, <<131355561, 53433342>>, <<96092580, 26248098>>, <<53808637, 51338270>>, <<53704880, 56883223>>,
       <<93560791, 4613426>>, <<44276766, 16188107>>, <<105945185, 35612979>>, <<45905253, 38605351>>, <<77289329, 62591945>>,
       <<69791724, 25153998>>, <<70508765, 5949592>>, <<112956229, 22360536>>, <<119507202, 65912495>>, <<104797941, 6299200>>,
       <<86445946, 51783253>>, <<53240134, 19516066>>, <<52607769, 57356346>>, <<61868577, 64308277>>, <<114008616, 9152138>>,
       <<98748009, 49686984>>, <<12222008, 26865025>>, <<32709490, 60641608>>, <<8305126, 8925292>>, <<40828749, 32321061>>,
       <<111053362, 65009618>>, <<84099749, 13631083>>, <<2942886, 45234778>>, <<100679712, 10400533>>, <<82755497, 38670503>>,
       <<63909013, 66272492>>, <<4139118, 31133073>>, <<2252875, 16228315>>, <<9546868, 8239900>>, <<117601075, 66526658>>,
       <<54890774, 2435077>>, <<7743218, 48371753>>, <<109116582, 17947416>>, <<64901697, 56287113>>, <<45943464, 21889796>>,
       <<52742230, 23862635>>, <<27795201, 51950656>>, <<4673182, 64951519>>, <<105801330, 51810971>>, <<118562997, 53359773>>,
       <<47062398, 46287607>>, <<77271913, 51103641>>, <<116614024, 12940903>>, <<3281839, 22194985>>, <<134022236, 34105305>>,
       <<15535039, 8012924>>, <<50040373, 5027313>>, <<8419036, 40502499>>, <<27026455, 38166415>>, <<21438723, 36620730>>,
       <<34362373, 45804911>>, <<60605472, 27127419>>, <<85452506, 55941238>>, <<66621795, 63434919>>, <<99219578, 34653196>>,
       <<126900482, 12269538>>, <<29723562, 55031127>>, <<48223421, 26058406>>, <<78457807, 16905600>>, <<27398798, 26033708>>,
       <<5168533, 18401988>>, <<111498992, 33480629>>, <<68464372, 15028686>>, <<49950908, 21157994>>, <<86781129, 19170482>>,
       <<37108276, 38819900>>, <<49885157, 34598416>>, <<20027000, 62118813>>, <<57442532, 65658390>>, <<42717598, 2359229>>,
       <<73826178, 22015106>>, <<117440072, 46906183>>, <<105335123, 14758660>>, <<88598513, 21459726>>, <<78605715, 26172701>>,
       <<115819610, 65777524>>, <<22235335, 22333016>>, <<127656922, 35922041>>, <<21560139, 24908600>>, <<118100631, 40318344>>,
       <<66346831, 206685>>, <<94476056, 25656604>>, <<131164106, 375132>>, <<4706391, 35618132>>, <<42701289, 35569188>>,
       <<16744641, 33033966>>, <<41739447, 55083678>>, <<33743920, 51482738>>, <<88557079, 39916128>>, <<112367463, 54663040>>,
       <<34738972, 66693025>>, <<54869726, 18303173>>, <<15770380, 26025472>>, <<11037744, 32016331>>, <<21739243, 62907354>>,
       <<8506083, 30391906>>, <<112895659, 49483803>>, <<39419733, 22224390>>, <<91843698, 56187617>>, <<102832748, 35211962>>,
       <<32352195, 60476290>>, <<61125658, 52166242>>, <<84330898, 12086677>>, <<60884536, 17602481>>, <<83405831, 25299471>>,
       <<10300223, 34036938>>, <<115419736, 28447191>>, <<133179178, 31767643>>, <<129600613, 25521094>>, <<106851225, 36450210>>,
       <<79711480, 18702770>>, <<29081756, 6791682>>, <<14213747, 27356263>>, <<58864570, 50385495>>, <<26513628, 13547411>>,
       <<82521941, 66210307>>, <<125187105, 11195418>>, <<36496828, 16945575>>, <<78675776, 8944022>>, <<30114651, 49408327>>,
       <<129709738, 4027513>>, <<87341203, 20318594>>, <<80362756, 14902095>>, <<68874772, 10510667>>, <<31548799, 62426488>>,
       <<126267159, 52954069>>, <<65099117, 57789678>>, <<128705190, 26027653>>, <<103807211, 52251483>>, <<119624108, 28589832>>,
       <<43379561, 49242252>>, <<86359259, 37803732>>, <<80801945, 15791319>>, <<9330109, 67064692>>, <<114657397, 52941231>>,
       <<39700616, 25024957>>, <<56369288, 57588080>>, <<1400119, 16929707>>, <<51356859, 60001045>>, <<13591882, 26242621>>,
       <<37246764, 52471915>>, <<111069750, 44157541>>, <<25126743, 4062177>>, <<97798074, 16105059>>, <<40855775, 31589163>>,
       <<84146199, 15410211>>, <<109729250, 3278661>>, <<33319591, 1835820>>, <<19202660, 8548482>>, <<125275102, 14062018>>,
       <<43938500, 61667550>>, <<104522044, 26845185>>, <<34019229, 6849157>>, <<129793112, 7741948>>, <<124387151, 35978504>>,
       <<30181124, 55579466>>, <<112821995, 7934020>>, <<25265515, 37857023>>, <<113187145, 49405714>>, <<5054282, 58673363>>,
       <<45195673, 27952621>>, <<1174682, 54698453>>, <<115172401, 3854842>>, <<39009174, 17647734>>, <<75984803, 46768634>>,
       <<105153053, 34925532>>, <<34938243, 55006454>>, <<93292648, 32674995>>, <<88032886, 44794812>>, <<77750238, 27025357>>,
       <<37701794, 47385394>>, <<47885673, 57150844>>, <<74492120, 63168108>>, <<109305013, 32688325>>, <<16916699, 18625260>>,
       <<93957045, 60345064>>, <<10716297, 22923111>>, <<34991842, 1366782>>, <<7434666, 42521172>>, <<14337887, 4223164>>,
       <<87405926, 50879019>>, <<129795023, 9667123>>, <<116802730, 27719593>>, <<72542395, 11227564>>, <<130685195, 55951859>>,
       <<144028, 30044703>>, <<40769153, 13037277>>, <<2030829, 25856252>>, <<75265784, 23503778>>, <<122845504, 13884936>>,
       <<44301155, 26102345>>, <<72229391, 65740314>>, <<40145327, 48288836>>, <<46522847, 14580774>>, <<14067286, 21090653>>,
       <<83363051, 21475516>>, <<101988493, 36250138>>, <<114161489, 2916100>>, <<110798135, 61229555>>, <<92576074, 43393215>>,
       <<71577518, 1256686>>, <<115243960, 25871>>, <<91527580, 58459913>>, <<94108427, 3515302>>, <<73951632, 34498522>>,
       <<124920260, 47173113>>, <<85327991, 43448021>>, <<116705058, 65442349>>, <<75264013, 60678887>>, <<24459071, 26990289>>,
       <<71280918, 46024421>>, <<119078148, 37706980>>, <<11341680, 1771997>>, <<129868094, 17417530>>, <<84844738, 52902730>>,
       <<59062252, 66956957>>, <<50650808, 27129999>>, <<74063580, 51422685>>, <<113378407, 47007658>>, <<72709971, 14788747>>,
       <<15051761, 6273527>>, <<50742630, 54507920>>, <<14458084, 23155114>>, <<93326895, 43522542>>, <<111835110, 8439287>>,
       <<50369816, 64182273>>, <<130456715, 22896071>>, <<120554703, 2590715>>, <<109360908, 5173099>>, <<95850520, 52309366>>,
       <<14216089, 56139682>>, <<8342612, 56789269>>, <<14356019, 42647398>>, <<20457860, 41848411>>, <<90711951, 19123028>>,
       <<115649123, 55756581>>, <<131836542, 8209265>>, <<67362690, 51857694>>, <<89821797, 43715285>>, <<33064565, 45140564>>,
       <<52767706, 33381442>>, <<92787294, 28438072>>, <<127749873, 63979855>>, <<95108492, 39632528>>, <<91176620, 7305383>>,
       <<100566061, 22025981>>, <<20358050, 62127203>>, <<35448554, 62900971>>, <<19244593, 46691777>>, <<133760518, 14218455>>,
       <<37059758, 27962455>>, <<20250323, 63881926>>, <<1738881, 13455608>>, <<34329112, 7906469>>, <<44291786, 35780391>>,
       <<36467358, 3911726>>, <<37985703, 19240312>>, <<14457684, 62366885>>, <<12027502, 54405797>>, <<16740560, 12861731>>,
       <<70269614, 60677134>>, <<89003138, 8884158>>, <<105606055, 51369598>>, <<78550828, 59631688>>, <<2042191, 31671673>>,
       <<2806721, 53236263>>, <<78726449, 43517107>>, <<46835352, 21718065>>, <<128749438, 650002>>, <<83754500, 35026203>>,
       <<123504093, 56489678>>, <<27273153, 66971265>>, <<17388637, 27535977>>, <<23022916, 7356407>>, <<132526077, 31649423>>,
       <<75674772, 21998088>>, <<76653377, 51015704>>, <<89802334, 22254934>>, <<16589215, 3049609>>, <<62589493, 54386694>>,
       <<75119078, 51536095>>, <<12124509, 50875511>>, <<21515061, 1833661>>, <<8494916, 61006586>>, <<47686542, 62151575>>,
       <<3523716, 35175084>>, <<6000792, 25020454>>, <<107927444, 20437173>>, <<106930580, 7062895>>, <<12103940, 46996487>>,
       <<115023489, 618990>>, <<13510912, 59234447>>, <<64315898, 12301287>>, <<51561315, 34610621>>, <<21009635, 38968767>>,
       <<53816505, 8957665>>, <<39612827, 523953>>, <<9437558, 62003472>>, <<110546730, 377654>>, <<104030746, 4540483>>,
       <<47601059, 14961870>>, <<67798900, 66032687>>, <<20727057, 8386777>>, <<101285151, 4049768>>, <<113443099, 38309009>>,
       <<55795878, 41782965>>, <<55378131, 18663950>>, <<72874318, 50457312>>, <<86727945, 17936414>>, <<128146974, 15981552>>,
       <<120972315, 12814237>>, <<132174701, 1451282>>, <<44947857, 56154942>>, <<112425285, 64810337>>, <<58698482, 55564661>>,
       <<38329785, 66249080>>, <<44813986, 16901583>>, <<19314473, 12255215>>, <<7158728, 38437522>>, <<130591021, 55934538>>,
       <<122140682, 60649698>>, <<39601295, 4418532>>, <<107801411, 24328575>>, <<19742761, 14684898>>, <<113616265, 15320410>>,
       <<24335648, 59466158>>, <<59816498, 60740090>>, <<16099322, 63692647>>, <<128720461, 58325085>>, <<30277631, 24046655>>,
       <<131511688, 189319>>, <<85236097, 44442627>>, <<17091575, 18584495>>, <<40718670, 19903153>>, <<68142265, 12598605>>,
       <<118326926, 25060693>>, <<127691133, 713981>>, <<41920372, 32831143>>, <<58545232, 34330072>>, <<78632264, 48224651>>,
       <<3883437, 23069200>>, <<41803943, 12703735>>, <<82322244, 64332631>>, <<118363505, 24933724>>, <<8777438, 38377752>>,
       <<82380657, 48641355>>, <<20575839, 4365409>>, <<49506018, 51940743>>, <<112984374, 56663204>>, <<102667717, 21472335>>,
       <<7741073, 17547322>>, <<76137633, 21941336>>, <<65932125, 47862165>>, <<11680622, 43369191>>, <<132332404, 63531360>>,
       <<2626557, 64114101>>, <<132801872, 54011789>>, <<7899414, 21952041>>, <<119350201, 22299349>>, <<22474620, 16289860>>,
       <<65108850, 65047564>>, <<27741334, 10353071>>, <<4765784, 6814260>>, <<41802699, 7629261>>, <<99190433, 58311937>>,
       <<110602513, 11212269>>, <<65037795, 8202367>>, <<85032120, 48796808>>, <<81205480, 38668636>>, <<126944079, 16057177>>,
       <<83664946, 43195963>>, <<7375599, 45092860>>, <<59438810, 29846455>>, <<65972982, 39882246>>, <<58944966, 25221535>>,
       <<117860392, 60556557>>, <<25868387, 39641247>>, <<118976785, 8866150>>, <<132105347, 4941951>>, <<107673715, 43006994>>,
       <<119448869, 24995461>>, <<127593561, 23619909>>, <<70577663, 40916811>>, <<64676510, 39225586>>, <<56823255, 40849846>>,
       <<121951707, 25267988>>, <<112119063, 55238467>>, <<119655773, 46641506>>, <<131100926, 59783395>>, <<116499708, 32083628>>,
       <<30201472, 34110436>>, <<23470434, 46491597>>, <<19217887, 51148645>>, <<89405626, 23134446>>, <<23925467, 41864292>>,
       <<44623255, 19916556>>, <<22146528, 30119598>>, <<117880025, 58223949>>, <<51975711, 13799369>>, <<6543004, 13785635>>,
       <<38517489, 37300059>>, <<93202311, 51209653>>, <<84562079, 30767558>>, <<126324455, 13887655>>, <<29617481, 17478991>>,
       <<125989007, 20114644>>, <<73353404, 47259442>>, <<14946845, 25480349>>, <<43591513, 54674943>>, <<41214508, 8680189>>,
       <<102421554, 33870213>>, <<53222574, 30474189>>, <<69474057, 48129201>>, <<94388864, 22970520>>, <<23580129, 45726384>>,
       <<110210747, 50371605>>, <<91586302, 64921961>>, <<99057048, 44418689>>, <<13512686, 23168256>>, <<95057941, 13653538>>,
       <<103427128, 46061589>>, <<86416387, 18440320>>, <<66094265, 2443354>>, <<34376520, 39742857>>, <<111515352, 26709179>>,
       <<124316673, 5752386>>, <<121655086, 8851135>>, <<31926787, 29914398>>, <<65112366, 50359467>>, <<104478465, 67035634>>,
       <<112957414, 61837808>>, <<115718314, 61545685>>, <<129713087, 40600402>>, <<24969612, 22555808>>, <<1667481, 19639889>>,
       <<62640196, 33963229>>, <<3216818, 50754334>>, <<129011180, 50825311>>, <<44906047, 27958020>>, <<101165109, 29601939>>,
       <<24636092, 51265661>>, <<98867896, 53605288>>, <<23440258, 21892967>>, <<106566359, 13302932>>, <<58774820, 31240560>>,
       <<35748850, 65561618>>, <<56587173, 10638434>>, <<103354930, 36771760>>, <<47305312, 24588071>>, <<70301407, 14513252>>,
       <<93584259, 48792369>>, <<131136881, 59589854>>, <<73174349, 29386772>>, <<10746655, 65788010>>, <<86729851, 32959540>>,
       <<25609585, 17661112>>, <<104434963, 37188388>>, <<119361942, 21808632>>, <<61655966, 31436901>>, <<61348229, 5263008>>,
       <<16944833, 58745278>>, <<134009094, 36752366>>, <<101276292, 34781578>>, <<38646278, 44753003>>, <<103906957, 51364570>>,
       <<126350877, 19598857>>, <<14739615, 46927871>>, <<80022500, 43567943>>, <<64121570, 17232456>>, <<88692956, 59663130>>,
       <<88943121, 52666875>>, <<59388056, 62419581>>, <<130413584, 11866635>>, <<45552669, 16309005>>, <<98946531, 61040466>>,
       <<101122021, 3221320>>, <<66612035, 18025484>>, <<104444415, 36607092>>, <<16762152, 18315386>>, <<20291055, 50484788>>,
       <<99342817, 31348065>>, <<601797, 39895005>>, <<106906951, 16393085>>, <<32856150, 32606681>>, <<87712170, 29030134>>,
       <<23746569, 58045954>>, <<33578058, 31798062>>, <<116380879, 22259866>>, <<128703112, 3294085>>, <<61999183, 8557594>>,
       <<69703530, 17360084>>, <<131231581, 798419>>, <<106767755, 10426461>>, <<20270930, 3904456>>, <<95392563, 45229626>> >>,
    \* random.seed(29)
    <<
       <<73567294, 5108058>>, <<46416761, 40166742>>, <<113393993, 40650492>>, <<38734892, 5820481>>, <<68497349, 62227405>>,
       <<46145971, 26368112>>, <<55766651, 1251725>>, <<130709115, 2170573>>, <<13922765, 56869415>>, <<59687064, 43768201>>,
       <<30173160, 53893399>>, <<46918030, 5739199>>, <<134048628, 33412831>>, <<44197758, 61569313>>, <<81574553, 36391005>>,
       <<56320022, 56108381>>, <<98039825, 13377596>>, <<60023176, 65571273>>, <<22875504, 14726874>>, <<58238775, 52622191>>,
       <<54768902, 45249738>>, <<106396753, 45888082>>, <<75511759, 35131426>>, <<26360533, 36482404>>, <<90441973, 28348836>>,
       <<40047270, 18674730>>, <<68704821, 50364364>>, <<29508607, 54945403>>, <<55130534, 64332312>>, <<105510319, 31708706>>,
       <<69216596, 9642181>>, <<100975067, 20608177>>, <<101567862, 20086137>>, <<78798350, 47510805>>, <<86591954, 31635227>>,
       <<53322924, 55093801>>, <<82940114, 56938135>>, <<104319173, 60080646>>, <<13312207, 49060695>>, <<125846552, 59703558>>,
       <<49289774, 57543110>>, <<18671275, 17722365>>, <<20132688, 46208987>>, <<45724752, 53818198>>, <<9296712, 37051265>>,
       <<53399873, 10959753>>, <<55712246, 41955301>>, <<87959118, 28588525>>, <<62624354, 18875685>>, <<125531950, 41438112>>,
       <<88499798, 10448524>>, <<43086638, 50028328>>, <<117426588, 56669507>>, <<93824909, 65317832>>, <<129831198, 42615911>>,
       <<98561914, 49044850>>, <<129603895, 45254265>>, <<27543908, 45072683>>, <<37360803, 1021087>>, <<130500857, 50670216>>,
       <<2936211, 26744560>>, <<123984373, 27806586>>, <<122191757, 36812246>>, <<18240262, 29288602>>, <<20236599, 19476314>>,
       <<122936630, 636635>>, <<128810361, 58512435>>, <<116723005, 3242640>>, <<97241487, 2648106>>, <<101976409, 43353430>>,
       <<41319259, 8087759>>, <<992794, 63145902>>, <<84273078, 34780706>>, <<118409909, 3927994>>, <<127365081, 2587538>>,
       <<69097473, 51330016>>, <<1122209, 10154806>>, <<23402050, 48036964>>, <<60277548, 24803102>>, <<30951387, 4414834>>,
       <<3715223, 49038603>>, <<25862885, 17256082>>, <<67092028, 1498215>>, <<17028707, 13083818>>, <<15134664, 49784267>>,
       <<22207533, 56639638>>, <<4521343, 43467657>>, <<105162686, 25389959>>, <<116182287, 14988572>>, <<27080045, 13646808>>,
       <<85092729, 58272990>>, <<117609907, 35720656>>, <<32697346, 63304398>>, <<44750708, 15230476>>, <<118301327, 55313993>>,
       <<102260079, 73281>>, <<83371451, 7736993>>, <<106556680, 47304219>>, <<76905809, 16936307>>, <<42258629, 15522405>>,
       <<91968458, 27836141>>, <<105215187, 65236321>>, <<7445877, 59925557>>, <<43230692, 27652978>>, <<39503115, 38630010>>,
       <<118969250, 10959824>>, <<38670309, 27348237>>, <<90420628, 7795791>>, <<58365950, 3531388>>, <<50775726, 27562713>>,
       <<67103852, 52805309>>, <<120122178, 1817470>>, <<88337718, 21806317>>, <<52261717, 9183895>>, <<20188704, 11432902>>,
       <<46227440, 41671038>>, <<63198229, 27097864>>, <<86710643, 34466287>>, <<134022148, 5779998>>, <<43607833, 13314318>>,
       <<126178135, 31863192>>, <<122239877, 2989190>>, <<59450128, 55691264>>, <<29817584, 39497760>>, <<31414519, 54783747>>,
       <<123653541, 29907673>>, <<23306822, 58268888>>, <<87009578, 34398156>>, <<87561884, 22804821>>, <<22444262, 11803790>>,
       <<4208671, 63924350>>, <<85664613, 30585718>>, <<7105172, 42323230>>, <<73650298, 61840531>>, <<130382867, 48743470>>,
       <<62235894, 46404464>>, <<41882487, 3648761>>, <<14252992, 62348216>>, <<40520090, 15591272>>, <<42983553, 14693042>>,
       <<15717443, 12802048>>, <<94287838, 57404564>>, <<80845869, 11047407>>, <<96349551, 13547549>>, <<14380331, 53488287>>,
       <<33613310, 21334770>>, <<124160474, 24239362>>, <<1182851, 10033358>>, <<49637586, 12671694>>, <<109780693, 55189421>>,
       <<30714794, 29046231>>, <<29537505, 62695445>>, <<85554675, 16777316>>, <<33791114, 36348534>>, <<45107162, 21449093>>,
       <<52561538, 30977093>>, <<40090396, 14063893>>, <<88459140, 7641851>>, <<98597961, 10891653>>, <<102153309, 39329278>>,
       <<131589391, 37752965>>, <<9771298, 44012635>>, <<34450355, 4891219>>, <<132406504, 54266022>>, <<107110187, 6938452>>,
       <<102063768, 59756962>>, <<29837902, 13706611>>, <<17224892, 2737648>>, <<36954230, 66684627>>, <<119838480, 55512156>>,
       <<100728971, 52220055>>, <<49252809, 51490017>>, <<88404769, 21390699>>, <<98682397, 4536663>>, <<38468222, 42503894>>,
       <<14280435, 42867449>>, <<108866664, 56411203>>, <<95008135, 22735897>>, <<108337291, 49315221>>, <<99689444, 28302975>>,
       <<49047817, 8278415>>, <<87836296, 45944740>>, <<49233443, 19358558>>, <<121270674, 56863787>>, <<16628513, 41524751>>,
       <<93493704, 36069701>>, <<46495397, 8848776>>, <<122087444, 35401991>>, <<107890644, 47167946>>, <<23482349, 34201315>>,
       <<2098092, 29629526>>, <<31374837, 21245978>>, <<129020711, 14237633>>, <<103127185, 29268591>>, <<94763937, 51577967>>,
       <<28101367, 60957150>>, <<28488730, 26878224>>, <<59750287, 25316428>>, <<71498779, 34470564>>, <<82720378, 55630426>>,
       <<8039659, 13519549>>, <<113182160, 63113186>>, <<32835814, 30466241>>, <<95855450, 23935862>>, <<42588862, 34047916>>,
       <<39789997, 35642800>>, <<116869658, 37354708>>, <<29113666, 17060076>>, <<67627720, 49658314>>, <<117469189, 15570726>>,
       <<111138115, 15389267>>, <<96428065, 14076601>>, <<32609128, 16591333>>, <<84199544, 13790064>>, <<63543199, 43225498>>,
       <<40886422, 66862580>>, <<103622369, 2837443>>, <<90577265, 7148023>>, <<119955759, 54671351>>, <<57012014, 51470991>>,
       <<19308538, 707195>>, <<36376534, 62028998>>, <<99315461, 38842336>>, <<94304400, 40614015>>, <<86285959, 22753848>>,
       <<53279144, 40510601>>, <<77649372, 20699873>>, <<9219523, 16688971>>, <<12166851, 45429273>>, <<108127724, 2671318>>,
       <<14930723, 63974469>>, <<83607580, 65833569>>, <<40152101, 11931146>>, <<23036507, 25564058>>, <<105304321, 45389857>>,
       <<118599467, 52063880>>, <<42512943, 59621903>>, <<20340793, 36394337>>, <<61870390, 10838108>>, <<15123513, 24632209>>,
       <<128884927, 10360311>>, <<3182724, 2848456>>, <<68343514, 27074834>>, <<21886871, 27652604>>, <<315862, 5973308>>,
       <<133794984, 34256865>>, <<91286948, 26671123>>, <<94755767, 28609679>>, <<103311504, 12610470>>, <<105604003, 42499625>>,
       <<81730938, 40320357>>, <<89110088, 47726433>>, <<42371922, 13232445>>, <<13834390, 65027266>>, <<97475209, 16793662>>,
       <<98658967, 18392067>>, <<99061222, 1104945>>, <<86817489, 37837537>>, <<11333828, 22673771>>, <<86825629, 18780332>>,
       <<11528671, 50349539>>, <<116848747, 46232429>>, <<1200142, 38157933>>, <<35483012, 37667740>>, <<71624197, 36459277>>,
       <<116659688, 52315880>>, <<88238268, 53088934>>, <<17552195, 30292595>>, <<97304763, 44829969>>, <<27888090, 63779356>>,
       <<45016653, 65052422>>, <<48329620, 45902650>>, <<107154773, 15890111>>, <<28046503, 51612886>>, <<43317023, 13867997>>,
       <<37684393, 40954468>>, <<32440885, 54391256>>, <<28924118, 207015>>, <<51546431, 63734641>>, <<24043217, 24298718>>,
       <<34689382, 33831395>>, <<16046057, 17192594>>, <<77993459, 49763119>>, <<93554703, 1544030>>, <<31782251, 52369639>>,
       <<59971075, 32517467>>, <<80647922, 40776605>>, <<131211714, 12081187>>, <<129677535, 60802166>>, <<15005281, 45011862>>,
       <<126827956, 23479113>>, <<108220652, 64732510>>, <<30194140, 7955158>>, <<26650329, 38624789>>, <<67319515, 39952322>>,
       <<38122248, 1489564>>, <<41873511, 64011426>>, <<54703466, 34627750>>, <<72695414, 48657135>>, <<72616726, 33602351>>,
       <<4777038, 48077816>>, <<56995459, 6169120>>, <<29883569, 48821553>>, <<122915080, 21422902>>, <<19255914, 65295802>>,
       <<17633361, 1985838>>, <<47534217, 29403696>>, <<33521393, 41594618>>, <<110632545, 131546>>, <<5280198, 54931608>>,
       <<124788293, 49860379>>, <<81428256, 14391034>>, <<99244599, 36647498>>, <<34639132, 62317643>>, <<69222899, 9911047>>,
       <<29483885, 4212906>>, <<102087590, 42754634>>, <<72639763, 8157018>>, <<34748080, 58629651>>, <<41766931, 16642065>>,
       <<2246820, 46770010>>, <<11599198, 23003891>>, <<79227480, 58264629>>, <<134145312, 21819875>>, <<120927359, 13459188>>,
       <<44666268, 5050919>>, <<46583903, 16162641>>, <<87106828, 55351039>>, <<65435561, 59874924>>, <<106269528, 16768870>>,
       <<26929046, 10258542>>, <<51287225, 10997438>>, <<126347497, 1650845>>, <<38484658, 18181063>>, <<92091947, 24260089>>,
       <<59996531, 37818563>>, <<66676726, 45689098>>, <<111755234, 63126973>>, <<130412484, 64840323>>, <<76327210, 51890080>>,
       <<133135136, 18287257>>, <<36065587, 42738774>>, <<43452961, 51415849>>, <<46793236, 5557713>>, <<45615319, 45148386>>,
       <<132493358, 35269178>>, <<20483398, 1893628>>, <<114302329, 48099664>>, <<96056370, 15207453>>, <<82098535, 15338614>>,
       <<65409606, 53801946>>, <<113996045, 49303905>>, <<3552471, 11035137>>, <<125032831, 43452056>>, <<49404757, 61761424>>,
       <<31700942, 1973015>>, <<4840, 27994671>>, <<106372762, 24355320>>, <<3651605, 57524437>>, <<111380771, 43586555>>,
       <<30795383, 34786371>>, <<131143566, 48727765>>, <<82180016, 10527572>>, <<132374416, 12126455>>, <<6494520, 28103832>>,
       <<45723034, 27491610>>, <<134078981, 20212203>>, <<5036679, 8828509>>, <<40729566, 43130339>>, <<48013523, 32711320>>,
       <<64261925, 43507387>>, <<90855034, 18596247>>, <<51360173, 63470258>>, <<49206737, 29748536>>, <<44703379, 36470992>>,
       <<50379821, 2840658>>, <<92428998, 5162542>>, <<119138106, 51491838>>, <<73828822, 4047557>>, <<37505703, 56519481>>,
       <<129805237, 37108074>>, <<38166093, 30550518>>, <<93698831, 62489557>>, <<99338391, 52892405>>, <<68254587, 49804199>>,
       <<36498000, 1857642>>, <<43769946, 3389241>>, <<97432242, 24201311>>, <<129789189, 12124893>>, <<123475870, 55325670>>,
       <<60306856, 16377722>>, <<85248747, 1337852>>, <<62225202, 22764674>>, <<34607447, 20153517>>, <<112932417, 33232191>>,
       <<82487718, 61896345>>, <<44232924, 61924785>>, <<18901782, 35666060>>, <<92323949, 16635824>>, <<2735276, 23552839>>,
       <<104126182, 34983054>>, <<6271183, 48381021>>, <<118239783, 20602334>>, <<8697224, 66656091>>, <<5967591, 11169782>>,
       <<121354248, 43096356>>, <<88902166, 14125556>>, <<62395781, 57116192>>, <<32566143, 44808402>>, <<97159240, 62342350>>,
       <<20601816, 44599594>>, <<124285419, 2883464>>, <<104083140, 62694505>>, <<103304458, 8845552>>, <<131943665, 23831089>>,
       <<130144100, 14420630>>, <<118989015, 16049019>>, <<2043377, 61815222>>, <<47252022, 44726081>>, <<16344688, 42966502>>,
       <<56594123, 20531253>>, <<114704706, 64950485>>, <<110937679, 3023696>>, <<76178144, 4122443>>, <<43436020, 33105879>>,
       <<7904372, 3474326>>, <<89197744, 36283077>>, <<42377092, 21578306>>, <<56082204, 59468053>>, <<4709868, 7623061>>,
       <<110995957, 16463205>>, <<20389298, 54362367>>, <<26293747, 20730280>>, <<61114399, 66036753>>, <<17173519, 31063834>>,
       <<51848767, 40170385>>, <<120428143, 55601639>>, <<69293802, 19851201>>, <<1709359, 4333749>>, <<68552457, 26529509>>,
       <<94894299, 44525632>>, <<122068807, 48410528>>, <<89184074, 11145969>>, <<132879237, 24094819>>, <<100861539, 62960339>>,
       <<75370572, 54023139>>, <<103944264, 56972717>>, <<126442091, 23334347>>, <<120441945, 51605986>>, <<25585565, 49049146>>,
       <<123712588, 60240668>>, <<72359555, 51100630>>, <<101440158, 44780725>>, <<93181703, 24739665>>, <<20737758, 47405114>>,
       <<71893939, 36639982>>, <<3220110, 53567760>>, <<68450061, 261389>>, <<28264100, 19992740>>, <<7960038, 53463648>>,
       <<72392663, 57653971>>, <<72601992, 52456807>>, <<7445774, 37819708>>, <<89216919, 15089788>>, <<128271105, 18788041>>,
       <<75748197, 45299656>>, <<43497861, 52932490>>, <<65472208, 26191856>>, <<49443273, 5155101>>, <<71461139, 61446452>>,
       <<99887248, 61055707>>, <<100886218, 50772135>>, <<34071976, 63703382>>, <<129619528, 1363422>>, <<132121947, 2243667>>,
       <<56863234, 37738324>>, <<57855470, 52556504>>, <<44026266, 22474862>>, <<4321104, 57496971>>, <<92571216, 23666447>>,
       <<95162698, 63687279>>, <<55558980, 64869297>>, <<36233821, 25476681>>, <<85039628, 15758283>>, <<4900944, 65623575>>,
       <<65007898, 36483152>>, <<36161819, 39127841>>, <<26855589, 25304305>>, <<106809332, 3963618>>, <<117923921, 33416302>>,
       <<45189141, 37289554>>, <<102331053, 40849686>>, <<19489711, 22886486>>, <<116906158, 34092110>>, <<77273718, 23214626>>,
       <<118935833, 7755432>>, <<127733966, 52332444>>, <<59289407, 11706517>>, <<76809625, 17915049>>, <<117317760, 19609812>>,
       <<80111302, 63884922>>, <<99639415, 50057765>>, <<43488621, 6904651>>, <<47778205, 63900433>>, <<55737569, 39534035>>,
       <<38616772, 58579475>>, <<7903806, 50906203>>, <<54142135, 466602>>, <<9654037, 10153830>>, <<99498679, 24447232>>,
       <<1206806, 9720956>>, <<82108916, 30394351>>, <<14280612, 14761429>>, <<41549593, 19989375>>, <<84268429, 30989239>>,
       <<69248718, 11251292>>, <<116306175, 32987622>>, <<36839479, 37153320>>, <<10788130, 65457572>>, <<83076818, 34338546>>,
       <<75960702, 42325255>>, <<10987181, 21802220>>, <<29651818, 18548187>>, <<48709687, 63946216>>, <<78595357, 11210892>>,
       <<49563956, 28406901>>, <<27205015, 66598111>>, <<91239135, 22498573>>, <<83453835, 8663862>>, <<88858648, 7000315>>,
       <<98683774, 19524202>>, <<35117500, 20944403>>, <<53597381, 15012362>>, <<37410602, 31148626>>, <<95880644, 919156>>,
       <<6406769, 59791669>>, <<66140650, 9257853>>, <<19971473, 64618805>>, <<32474881, 54238482>>, <<51352486, 33998440>>,
       <<80444112, 3786193>>, <<98790893, 50596352>>, <<83390438, 45760783>>, <<35550915, 1568274>>, <<88129952, 66581715>>,
       <<3880368, 52063914>>, <<25850157, 5582327>>, <<123429899, 45808409>>, <<201180, 19183864>>, <<26571928, 1030576>>,
       <<235383, 59498818>>, <<60901631, 36701576>>, <<80919942, 8006140>>, <<123734911, 17040424>>, <<26307150, 31328861>>,
       <<89703704, 16234407>>, <<5943136, 39319083>>, <<23308550, 47010301>>, <<28976951, 49673061>>, <<50584413, 18823079>>,
       <<89391660, 4683258>>, <<48514484, 64295902>>, <<13832776, 52322078>>, <<104212886, 65081215>>, <<97442767, 25461379>>,
       <<55243689, 32007774>>, <<31787836, 31261580>>, <<90574339, 11112053>>, <<46306867, 11067086>>, <<84825240, 31278317>>,
       <<27918314, 39817650>>, <<29020979, 13489454>>, <<116345632, 26197179>>, <<5894810, 30654160>>, <<34268864, 55651436>>,
       <<32679770, 35431388>>, <<130847555, 23052935>>, <<80487347, 20882001>>, <<36476149, 19729688>>, <<56708057, 26772741>>,
       <<57808160, 44888513>>, <<35393569, 21284567>>, <<66554331, 48083628>>, <<28216578, 66313754>>, <<87896937, 16993335>>,
       <<52499771, 10367433>>, <<54819030, 9717241>>, <<29415324, 8987749>>, <<111313797, 44472632>>, <<58455401, 29150698>>,
       <<65505081, 11982548>>, <<84168090, 56479772>>, <<46776884, 36128180>>, <<57942127, 18355250>>, <<108984731, 65611215>>,
       <<21119019, 6744176>>, <<75644185, 1007741>>, <<89626712, 64365252>>, <<89793060, 46710607>>, <<39388165, 23860649>> >>,
    \* random.seed(30)
    <<
       <<72354302, 54229137>>, <<38815289, 41003740>>, <<4031485, 41733395>>, <<87729505, 55502631>>, <<28186889, 65560570>>,
       <<34531131, 3253169>>, <<53311048, 25244951>>, <<86111162, 8997366>>, <<132715994, 5457122>>, <<61945912, 510475>>,
       <<133343300, 35054899>>, <<133220757, 62572325>>, <<32571359, 1734813>>, <<9750261, 67101817>>, <<21461551, 60970874>>,
       <<112998271, 54767511>>, <<80470873, 35622995>>, <<123139754, 26962933>>, <<130482328, 55826810>>, <<87835278, 23380761>>,
       <<71833969, 59194712>>, <<9077283, 26938266>>, <<3155467, 16684467>>, <<108084769, 37770065>>, <<90190248, 18777070>>,
       <<102409702, 28777853>>, <<75920589, 6408012>>, <<90448489, 18685107>>, <<85727925, 37734249>>, <<120148441, 65093700>>,
       <<14998833, 41168841>>, <<66364011, 62662642>>, <<41499323, 8680214>>, <<111312791, 20711323>>, <<117719280, 20919471>>,
       <<33826916, 34024001>>, <<10783385, 9283713>>, <<32644922, 46934825>>, <<42226911, 7953997>>, <<103298665, 1928999>>,
       <<54992519, 61498688>>, <<100649823, 33942577>>, <<40393455, 12018570>>, <<70295526, 43155201>>, <<25013981, 31676994>>,
       <<86622015, 22229357>>, <<68867770, 30283859>>, <<115784562, 44090652>>, <<127300526, 22297002>>, <<69795693, 22659481>>,
       <<9161110, 1357640>>, <<125798405, 44028623>>, <<126814792, 6893581>>, <<63653267, 58928926>>, <<65182917, 17551362>>,
       <<125162739, 32135352>>, <<34046843, 38963212>>, <<34305885, 60019526>>, <<93312143, 58892486>>, <<90593991, 11407296>>,
       <<92081346, 12430041>>, <<111133783, 12545504>>, <<68775682, 19114119>>, <<56390730, 44655711>>, <<30267042, 62729534>>,
       <<28633367, 32007119>>, <<49640870, 62734244>>, <<57946845, 60296311>>, <<99273418, 54685553>>, <<83219116, 20095379>>,
       <<68549618, 64301395>>, <<51024026, 44390473>>, <<83946050, 61687664>>, <<51308644, 20227407>>, <<107012374, 54499153>>,
       <<86410991, 55778100>>, <<93243516, 31632428>>, <<50093025, 20826209>>, <<69510986, 9304861>>, <<96803636, 10647204>>,
       <<128402207, 19860104>>, <<70970484, 62758105>>, <<43055082, 1373106>>, <<92513097, 12670941>>, <<16044185, 51831714>>,
       <<44910753, 37732702>>, <<4388896, 39027525>>, <<74195468, 61757641>>, <<34069024, 56836836>>, <<52580974, 48684380>>,
       <<105700142, 55214272>>, <<85282232, 35681451>>, <<4962181, 47221189>>, <<59424612, 44163788>>, <<900180, 9675634>>,
       <<110487146, 39932066>>, <<66637476, 41061394>>, <<114140194, 25026859>>, <<35520118, 29397784>>, <<110470307, 34673411>>,
       <<18601284, 8948919>>, <<116423339, 61699479>>, <<52303713, 35395505>>, <<9831934, 50293820>>, <<122826119, 22302440>>,
       <<112303991, 1749820>>, <<25987795, 27347839>>, <<77503975, 65452320>>, <<63921681, 216895>>, <<19159843, 65353256>>,
       <<57083941, 64660556>>, <<130560634, 4301303>>, <<51094304, 16735316>>, <<101851475, 19635588>>, <<102042467, 20060319>>,
       <<103252669, 59581292>>, <<82173827, 932823>>, <<121104624, 21116230>>, <<45925895, 175505>>, <<64239291, 51141678>>,
       <<60066627, 43648992>>, <<13543782, 23901418>>, <<65643992, 63543975>>, <<102323543, 32026011>>, <<77058924, 48850995>>,
       <<23807383, 7939102>>, <<32574279, 22316934>>, <<64970565, 26201716>>, <<14188710, 13050074>>, <<26932705, 31984345>>,
       <<99218637, 6351338>>, <<14299894, 26519624>>, <<15350991, 11559326>>, <<21301062, 47119897>>, <<69486522, 23078792>>,
       <<2861763, 59809397>>, <<92152780, 45229530>>, <<76012232, 11119974>>, <<101912137, 57314754>>, <<104050588, 58580732>>,
       <<97118688, 25016296>>, <<69452654, 35715073>>, <<40811796, 12780607>>, <<80231451, 23531336>>, <<20087189, 38730369>>,
       <<30663821, 12940120>>, <<93945594, 41870226>>, <<80217455, 56258668>>, <<18465700, 9611469>>, <<59458798, 8216240>>,
       <<80329450, 61887677>>, <<29874225, 21578326>>, <<87121423, 33671604>>, <<19238216, 12734540>>, <<22097131, 20221095>>,
       <<55701816, 13529098>>, <<38635135, 1693886>>, <<96532878, 54483501>>, <<55625390, 49575823>>, <<38859570, 279623>>,
       <<109866193, 26818598>>, <<111989627, 18461073>>, <<103692351, 47405402>>, <<16139738, 32221335>>, <<36504440, 64890046>>,
       <<13166728, 28055522>>, <<99919199, 52170405>>, <<62247668, 37330374>>, <<12471650, 31468994>>, <<125627028, 60155550>>,
       <<10163491, 16007420>>, <<6028546, 37640297>>, <<120819811, 42154577>>, <<60778683, 41892389>>, <<114767682, 13952429>>,
       <<78976748, 111>>, <<18324116, 7636719>>, <<64568542, 41839406>>, <<102192917, 17205209>>, <<2351029, 37189845>>,
       <<104316734, 4931273>>, <<47051171, 12296652>>, <<68926482, 29617533>>, <<43104950, 48362711>>, <<105827835, 51732865>>,
       <<64913200, 42160999>>, <<60627354, 27311733>>, <<8445531, 12826698>>, <<97720147, 4462238>>, <<23269205, 1605956>>,
       <<81070133, 41726830>>, <<673684, 4861212>>, <<14501572, 21117266>>, <<84201958, 11698044>>, <<38032734, 1945505>>,
       <<80003338, 30104336>>, <<92823344, 64413959>>, <<47542849, 46743865>>, <<71614644, 63166562>>, <<52279057, 12785779>>,
       <<5863817, 36653667>>, <<113374287, 66612973>>, <<71221194, 733810>>, <<116490126, 54110327>>, <<85845190, 59488175>>,
       <<84613492, 65873522>>, <<14928133, 62641353>>, <<83334576, 53903640>>, <<57870164, 19868813>>, <<37132764, 59513625>>,
       <<15144797, 26441207>>, <<24068167, 17856749>>, <<9409713, 7606711>>, <<88643225, 26034519>>, <<57015361, 44959750>>,
       <<17151954, 35078463>>, <<76046775, 24551961>>, <<117651022, 23932880>>, <<124456709, 27535886>>, <<10457337, 2984551>>,
       <<83344260, 56559467>>, <<82469063, 12211046>>, <<64344381, 331122>>, <<50043513, 10710058>>, <<62698567, 43963241>>,
       <<46012409, 51551944>>, <<52655652, 44077230>>, <<24282361, 34617223>>, <<93076109, 48309238>>, <<114600563, 11967102>>,
       <<130056966, 34566195>>, <<50160283, 43859344>>, <<31350604, 22419095>>, <<34028200, 1301778>>, <<2796217, 43595185>>,
       <<89770145, 6099429>>, <<19367351, 1462739>>, <<67251984, 21194424>>, <<116027753, 41480694>>, <<94246393, 32997522>>,
       <<84533130, 16675259>>, <<102928150, 63475248>>, <<81846401, 8853842>>, <<110658571, 10205973>>, <<81988207, 10215069>>,
       <<30335685, 58125410>>, <<9437651, 42820252>>, <<125853308, 47035555>>, <<15179137, 21814553>>, <<71422940, 2500406>>,
       <<117604272, 51167710>>, <<112554166, 62219379>>, <<101493416, 14996884>>, <<6333776, 35261686>>, <<4245021, 22096003>>,
       <<69990554, 28053012>>, <<13299483, 34057201>>, <<29899643, 66545853>>, <<34253012, 11109081>>, <<107173760, 51720128>>,
       <<109206005, 18852023>>, <<107119735, 7319734>>, <<118152815, 57475225>>, <<117500079, 22221190>>, <<24449431, 1174380>>,
       <<133968083, 13942300>>, <<46539622, 33257876>>, <<94871317, 12376784>>, <<105835653, 3372243>>, <<30662432, 15127775>>,
       <<123164487, 41152207>>, <<83144287, 10074698>>, <<92967438, 14230646>>, <<49605459, 37303699>>, <<98306520, 40044905>>,
       <<26597033, 44747295>>, <<44695268, 64771921>>, <<94891723, 45971570>>, <<116553852, 55895532>>, <<76226063, 34147539>>,
       <<76638338, 36983352>>, <<9489075, 16602112>>, <<64112235, 64668249>>, <<27576270, 40364755>>, <<39537990, 64543499>>,
       <<53491479, 38316988>>, <<66892007, 59704876>>, <<43381973, 43637911>>, <<95642161, 1744500>>, <<15829334, 31061710>>,
       <<5198029, 16710960>>, <<95189384, 32852281>>, <<63664726, 32664109>>, <<131720053, 64525585>>, <<82175531, 10860958>>,
       <<77072679, 50432611>>, <<76986202, 20704076>>, <<13555991, 32119232>>, <<85025811, 49194830>>, <<56256035, 12042811>>,
       <<18521912, 62490008>>, <<23212065, 5800474>>, <<510558, 46034841>>, <<39734550, 28443597>>, <<52479458, 16639773>>,
       <<71547844, 45468152>>, <<114913675, 14655514>>, <<8354219, 51429725>>, <<18904597, 35267705>>, <<4912414, 8034535>>,
       <<63851234, 10876723>>, <<60813056, 7152884>>, <<2448690, 41522217>>, <<42738890, 41603178>>, <<34243927, 24980893>>,
       <<22364392, 46463499>>, <<56884089, 61970510>>, <<10819522, 63008804>>, <<21465471, 29023246>>, <<35587843, 25960951>>,
       <<40345095, 19288940>>, <<60301186, 22954942>>, <<48607306, 8989921>>, <<89402981, 5328938>>, <<40864808, 52761136>>,
       <<55617965, 15846841>>, <<16956557, 45864366>>, <<129306403, 3230652>>, <<112919331, 43794370>>, <<15204059, 28557964>>,
       <<105975476, 21276679>>, <<86340979, 57930394>>, <<115593319, 25322476>>, <<122919796, 22983913>>, <<107357824, 62664985>>,
       <<105073581, 12430452>>, <<60801062, 45545664>>, <<53711711, 55167736>>, <<75434744, 42555415>>, <<86658122, 7248532>>,
       <<54674137, 28514718>>, <<130368162, 54636385>>, <<65377437, 4564678>>, <<53129620, 26989671>>, <<103743413, 46268425>>,
       <<66975561, 18221984>>, <<55656893, 64638827>>, <<47528307, 57685801>>, <<98604019, 25902879>>, <<30324710, 53121326>>,
       <<102325721, 20946330>>, <<42218068, 64197455>>, <<16048611, 61397164>>, <<14330585, 35410398>>, <<52258062, 52287015>>,
       <<90705749, 28885120>>, <<113463554, 50269846>>, <<2031541, 57024219>>, <<121309814, 702799>>, <<74002746, 32829094>>,
       <<9810409, 34280439>>, <<58313429, 60483333>>, <<24571680, 3084875>>, <<126663185, 49535113>>, <<54098219, 13750739>>,
       <<16468819, 60532750>>, <<7516685, 54408819>>, <<47144731, 46842312>>, <<22580960, 61044578>>, <<66406502, 23048299>>,
       <<71050440, 40049195>>, <<89042844, 22030829>>, <<57991682, 1625506>>, <<51935370, 21903355>>, <<63260151, 46351763>>,
       <<63723417, 28615358>>, <<11492125, 9378015>>, <<19088410, 41311128>>, <<11460497, 43409265>>, <<98772735, 2992009>>,
       <<97884995, 42335065>>, <<10275145, 14850878>>, <<28970429, 65618502>>, <<126132365, 38927005>>, <<98212747, 6489760>>,
       <<1323449, 54979543>>, <<58694789, 57398276>>, <<122980455, 33454153>>, <<96783143, 51735392>>, <<44109926, 37059295>>,
       <<111267792, 62139673>>, <<88445926, 14746662>>, <<128581786, 59153771>>, <<110165790, 56795160>>, <<11162354, 22721506>>,
       <<67765368, 43747283>>, <<98636965, 62985317>>, <<113251702, 6781052>>, <<104811471, 24697045>>, <<105687369, 25593254>>,
       <<30162416, 34328837>>, <<59572487, 13136390>>, <<30334119, 15064595>>, <<124911943, 57570723>>, <<132729662, 59026533>>,
       <<51131818, 23560488>>, <<47660104, 53395023>>, <<35478672, 6310342>>, <<15635957, 63364519>>, <<7736902, 26717253>>,
       <<12731358, 43189556>>, <<127499612, 6785269>>, <<94224240, 35649869>>, <<36983928, 52222529>>, <<129571056, 27467652>>,
       <<7989504, 27976247>>, <<121594552, 58967987>>, <<8434396, 54795066>>, <<41456072, 55440011>>, <<3376082, 4634657>>,
       <<59165379, 37919877>>, <<90004766, 30430306>>, <<115034643, 36190188>>, <<82525185, 18985452>>, <<4052339, 59636868>>,
       <<64143392, 5594913>>, <<125063298, 55921020>>, <<87482214, 64745716>>, <<16886360, 20025405>>, <<131222428, 37298738>>,
       <<721819, 1884083>>, <<128479081, 62654740>>, <<87624495, 49979100>>, <<38561417, 29884979>>, <<92719449, 5022244>>,
       <<99627717, 52841156>>, <<111259304, 55176986>>, <<126833436, 56945384>>, <<86911968, 54858576>>, <<120624912, 6050195>>,
       <<27365960, 45578825>>, <<19794953, 7718979>>, <<82415810, 39526227>>, <<105629724, 33234724>>, <<107110786, 20821042>>,
       <<49120213, 16857441>>, <<124991184, 64243189>>, <<83667354, 28549239>>, <<15431105, 45029997>>, <<117631216, 28794571>>,
       <<77321421, 51421706>>, <<60838417, 60286114>>, <<100917887, 32775719>>, <<18723577, 28367871>>, <<54051589, 58601244>>,
       <<41889474, 6252405>>, <<126198174, 13312835>>, <<129573481, 36989622>>, <<66017253, 17597247>>, <<94879504, 21877532>>,
       <<50906870, 16390030>>, <<39673017, 52955900>>, <<81005434, 64857391>>, <<44556834, 1201438>>, <<123742475, 13955565>>,
       <<96058094, 19210554>>, <<111723748, 55824456>>, <<112460512, 40550807>>, <<115756200, 3138789>>, <<699166, 27398072>>,
       <<49548600, 10004305>>, <<42951982, 31018469>>, <<13409386, 46760083>>, <<88155897, 17075608>>, <<84444269, 59537656>>,
       <<112468866, 43975894>>, <<36601647, 62871982>>, <<118249805, 53942963>>, <<68761063, 44089212>>, <<115645414, 10938199>>,
       <<130748469, 24414382>>, <<107625883, 5175673>>, <<107264329, 48172841>>, <<24955808, 12455063>>, <<84699572, 47718595>>,
       <<89476923, 25619204>>, <<132892814, 63174019>>, <<90682859, 21895062>>, <<83804994, 42980622>>, <<108931531, 19850021>>,
       <<46882558, 57303210>>, <<129186141, 17772309>>, <<11368252, 40749850>>, <<227049, 14640879>>, <<60717564, 43871954>>,
       <<92384872, 42675267>>, <<30404421, 57321470>>, <<126543346, 16967937>>, <<2724290, 53455276>>, <<128411676, 22422743>>,
       <<83999924, 18060008>>, <<63281653, 16780521>>, <<81613931, 51252629>>, <<84892334, 1518192>>, <<2998983, 7815898>>,
       <<66582420, 25381977>>, <<115238691, 53109055>>, <<73710684, 55351016>>, <<20119551, 38926802>>, <<21303029, 8399508>>,
       <<71192979, 39732227>>, <<72353917, 3503599>>, <<36408084, 10649358>>, <<100746495, 56153665>>, <<56344133, 32440467>>,
       <<4133971, 57838630>>, <<48175072, 3082575>>, <<60452152, 7382657>>, <<37734562, 3776057>>, <<26173017, 50189666>>,
       <<36035083, 51847022>>, <<15632048, 30866586>>, <<123465920, 34023933>>, <<100782222, 2687006>>, <<115809778, 27990502>>,
       <<59176429, 60634590>>, <<108617413, 893945>>, <<121322163, 22874890>>, <<84670194, 29366040>>, <<11315866, 21701867>>,
       <<76229099, 52628244>>, <<16959446, 58498217>>, <<23809722, 57277355>>, <<12356395, 6779705>>, <<26868276, 8303871>>,
       <<115872593, 1649148>>, <<26484481, 41371718>>, <<127576358, 18120257>>, <<3801772, 62698778>>, <<80224439, 44336383>>,
       <<29473633, 62964240>>, <<133520200, 4540790>>, <<12476440, 55549293>>, <<86164396, 15508428>>, <<40451830, 2213814>>,
       <<52097679, 61287314>>, <<109513654, 30048802>>, <<84315262, 33990823>>, <<103473552, 65810978>>, <<66366018, 23746654>>,
       <<60754109, 35605789>>, <<102696904, 15777944>>, <<105949882, 31841638>>, <<4880991, 27516912>>, <<18625655, 63509133>>,
       <<45937642, 49215779>>, <<34853139, 29415194>>, <<12809759, 55965765>>, <<26097733, 20230936>>, <<25243796, 6986103>>,
       <<12697424, 65645981>>, <<102331663, 45349337>>, <<126375894, 11218322>>, <<26235643, 33719771>>, <<109835764, 58314103>>,
       <<118701076, 40876566>>, <<92716719, 32134100>>, <<18563827, 15746150>>, <<116786474, 28036274>>, <<104010158, 26136028>>,
       <<53474360, 36043419>>, <<2660507, 38315323>>, <<70027495, 31151952>>, <<91489710, 11593069>>, <<55882047, 2312626>>,
       <<104217306, 22484757>>, <<94190066, 38427805>>, <<12561820, 27687762>>, <<90248397, 9202859>>, <<123873824, 2725612>>,
       <<41115934, 55348913>>, <<102544350, 42492767>>, <<62705984, 42125795>>, <<95856940, 66281458>>, <<122333819, 57279779>>,
       <<14798244, 52351607>>, <<131512546, 39309170>>, <<92554208, 27067569>>, <<5800742, 4151841>>, <<69204722, 37717737>>,
       <<113790918, 11597268>>, <<77697067, 42097448>>, <<105707333, 10007565>>, <<83484950, 65342537>>, <<22486805, 56130378>>,
       <<116717639, 20855939>>, <<97762910, 46003537>>, <<101378256, 18429695>>, <<20301229, 787131>>, <<45901116, 59439720>> >>,
    \* random.seed(31)
    <<
       <<1647958, 31512858>>, <<15085919, 51269620>>, <<52725738, 9452634>>, <<91786709, 2903680>>, <<18614781, 63771371>>,
       <<15091919, 35917479>>, <<31111985, 47748650>>, <<101682342, 9367836>>, <<19783856, 65881748>>, <<99409058, 2222352>>,
       <<88874504, 4067958>>, <<18331259, 15513503>>, <<71895302, 49148772>>, <<60096112, 35303919>>, <<55374219, 13752551>>,
       <<133726986, 39801023>>, <<12497199, 7928791>>, <<2733539, 51690461>>, <<126138077, 59570461>>, <<54082471, 22919907>>,
       <<26641901, 13819573>>, <<44333378, 26302625>>, <<48975340, 40054373>>, <<128193076, 16546584>>, <<28230320, 48585098>>,
       <<29115319, 27939954>>, <<78504075, 44474636>>, <<73468296, 4030086>>, <<128009227, 3460366>>, <<112566106, 12072230>>,
       <<47714954, 9042287>>, <<27361332, 9906948>>, <<112261523, 53422787>>, <<132738361, 25260586>>, <<4076154, 5778933>>,
       <<98656177, 35650467>>, <<116548721, 29439355>>, <<87395965, 54282615>>, <<29307655, 13941236>>, <<106917073, 29017240>>,
       <<97954548, 24660615>>, <<26012990, 22189158>>, <<86018180, 54950239>>, <<29418275, 32352794>>, <<5558417, 17676235>>,
       <<45098504, 19687947>>, <<44874727, 38379449>>, <<53172506, 32334660>>, <<86807143, 43671624>>, <<112229269, 21231672>>,
       <<129026655, 14304691>>, <<131054320, 50282177>>, <<133346125, 6395925>>, <<106011547, 51840339>>, <<41112652, 60158396>>,
       <<23662333, 37573320>>, <<83718549, 62811367>>, <<73258557, 56257772>>, <<90531873, 19802511>>, <<12552552, 11648689>>,
       <<25875976, 1929894>>, <<123616825, 53277092>>, <<80717137, 25147797>>, <<93330641, 64224753>>, <<12837281, 44934313>>,
       <<53575995, 19113630>>, <<122150649, 20506970>>, <<87151596, 56319807>>, <<133097523, 59382992>>, <<26426564, 7650072>>,
       <<61042228, 13596321>>, <<107447324, 22409776>>, <<59683487, 27040404>>, <<105886300, 3256734>>, <<75387344, 47915648>>,
       <<15842698, 17964523>>, <<13269562, 58593371>>, <<131935460, 42756795>>, <<16014757, 64476482>>, <<26052633, 13496009>>,
       <<44991558, 10895083>>, <<95758946, 66447423>>, <<114633880, 10191904>>, <<63845562, 3889467>>, <<66860242, 41045896>>,
       <<105822254, 34362003>>, <<37312736, 57738808>>, <<49982740, 65864691>>, <<82238064, 32900465>>, <<85392641, 39640199>>,
       <<5110486, 57347963>>, <<15035056, 32576158>>, <<18512785, 53505889>>, <<97325071, 40685568>>, <<93002199, 33397357>>,
       <<130614578, 55645833>>, <<103017637, 1649699>>, <<34192509, 32866859>>, <<102743579, 52454910>>, <<132208839, 31532847>>,
       <<46800991, 15934295>>, <<1501431, 6494518>>, <<50357181, 39103504>>, <<37919187, 29919977>>, <<23637528, 66648358>>,
       <<6052099, 8868059>>, <<16757452, 38061905>>, <<116123888, 41194465>>, <<6709291, 61966077>>, <<82403091, 59515882>>,
       <<27716891, 52943668>>, <<25946348, 63529565>>, <<110156075, 58150200>>, <<40094396, 46258810>>, <<24672560, 37211386>>,
       <<61049117, 37481924>>, <<93272535, 34453719>>, <<70381492, 47621935>>, <<115389940, 33785422>>, <<53874821, 15229654>>,
       <<70335453, 13061505>>, <<96247207, 41240725>>, <<61946973, 20701648>>, <<96235237, 54980176>>, <<62665852, 21874539>>,
       <<17936353, 24935922>>, <<16573099, 35073250>>, <<105108282, 23277128>>, <<99971649, 12854511>>, <<126534283, 19643155>>,
       <<92627403, 25455369>>, <<77811914, 51848770>>, <<22303245, 2819081>>, <<114505301, 44832971>>, <<15946493, 49166184>>,
       <<57025562, 13936006>>, <<18875073, 16475906>>, <<51096847, 59221855>>, <<41231032, 13745676>>, <<57111774, 59748788>>,
       <<95440621, 20599963>>, <<72686185, 39412680>>, <<32581075, 61694622>>, <<104532579, 18082437>>, <<98664840, 63031943>>,
       <<111027892, 2536619>>, <<4425832, 31693554>>, <<82505246, 55557420>>, <<120177437, 18393570>>, <<34740154, 35998732>>,
       <<27133155, 29183717>>, <<109236097, 47117756>>, <<48839621, 14130766>>, <<53859269, 2240156>>, <<109741403, 29768622>>,
       <<51560335, 47463432>>, <<26634718, 16106063>>, <<28774208, 21609273>>, <<46387209, 19933212>>, <<93666365, 64383543>>,
       <<49426404, 7537374>>, <<103489586, 14495811>>, <<8853250, 65035822>>, <<33424618, 59379002>>, <<83876018, 46546776>>,
       <<64360872, 59609278>>, <<67088646, 30328488>>, <<125550468, 43762420>>, <<37225907, 44174254>>, <<24369895, 28036653>>,
       <<4529235, 4565280>>, <<64756748, 10335387>>, <<39882164, 54236901>>, <<63589686, 55828019>>, <<748629, 65848877>>,
       <<26656, 18604821>>, <<50959684, 18285953>>, <<101685156, 19075718>>, <<40326344, 59679924>>, <<122483042, 16511926>>,
       <<77765225, 20633680>>, <<54149953, 59978949>>, <<104306871, 65053675>>, <<31299123, 16041663>>, <<81227915, 9559722>>,
       <<113617008, 42458050>>, <<72602034, 51561193>>, <<42913680, 57033452>>, <<12884710, 44986285>>, <<77056874, 47501647>>,
       <<25177215, 1383442>>, <<50090342, 60817775>>, <<72805350, 33047240>>, <<126312665, 20539241>>, <<90378568, 31472362>>,
       <<69702540, 63055392>>, <<115205935, 17427674>>, <<41420445, 53113213>>, <<52028562, 26709409>>, <<90892735, 14326531>>,
       <<74388818, 59491874>>, <<29746008, 51494471>>, <<55123498, 3240157>>, <<110526053, 38290625>>, <<32522086, 64362957>>,
       <<94734843, 16064913>>, <<6460297, 56913495>>, <<128128553, 27598931>>, <<91814468, 61235238>>, <<43447790, 18316760>>,
       <<131963359, 7243974>>, <<106906468, 36866673>>, <<8278707, 21996818>>, <<33324416, 48952688>>, <<65993735, 51021326>>,
       <<133978215, 28695909>>, <<18883479, 51403644>>, <<6397008, 20739298>>, <<41960053, 53606872>>, <<6013954, 62714390>>,
       <<54884216, 15124904>>, <<72275911, 57809530>>, <<59113989, 36643719>>, <<18974922, 5144225>>, <<3108712, 33117519>>,
       <<107757968, 31765629>>, <<59059380, 18237128>>, <<64431026, 50910771>>, <<64162963, 44771518>>, <<92026482, 227349>>,
       <<120896697, 45556257>>, <<111011815, 65650559>>, <<97600558, 43608951>>, <<45482101, 15780546>>, <<22650267, 66644636>>,
       <<12047516, 31220022>>, <<115298869, 24088834>>, <<7635492, 62841618>>, <<76403906, 26303873>>, <<122103918, 58360182>>,
       <<43251867, 41541933>>, <<52230116, 13568606>>, <<56101704, 14698746>>, <<126762724, 3892245>>, <<91827132, 58355284>>,
       <<112588412, 29942695>>, <<5213134, 59248942>>, <<98029406, 27657799>>, <<60527864, 50451756>>, <<53885248, 9122682>>,
       <<109601762, 64757566>>, <<98693122, 52801116>>, <<122200920, 64137981>>, <<99123872, 34662172>>, <<122139083, 21381921>>,
       <<57462208, 16066247>>, <<74638901, 17285562>>, <<105328756, 6101484>>, <<60879135, 3747342>>, <<18425703, 58457318>>,
       <<78578290, 20583468>>, <<116931947, 47591758>>, <<116843558, 13164057>>, <<16799130, 43264555>>, <<51147997, 31428306>>,
       <<30679891, 18448607>>, <<45769060, 22864438>>, <<128781101, 61678816>>, <<56517021, 51996842>>, <<42037928, 55973228>>,
       <<36582062, 40118945>>, <<59105122, 55080359>>, <<89886274, 28199852>>, <<45976830, 4640099>>, <<25000359, 43718905>>,
       <<30347257, 60192998>>, <<34887723, 54557338>>, <<121631587, 64776670>>, <<22741143, 7809437>>, <<101202408, 57141509>>,
       <<14520666, 47534777>>, <<105483661, 20819580>>, <<35699723, 44600929>>, <<104634178, 30229511>>, <<57995989, 13196482>>,
       <<10497902, 34188023>>, <<12683545, 22394051>>, <<107358480, 60417334>>, <<72741354, 58404042>>, <<65228906, 31995670>>,
       <<47271686, 9614756>>, <<92792665, 29265626>>, <<64738546, 10453028>>, <<8323496, 17153770>>, <<80660543, 21576364>>,
       <<42099660, 57170458>>, <<113636752, 20670672>>, <<73687157, 3966185>>, <<103857862, 21791840>>, <<16130415, 46300154>>,
       <<94901676, 56636448>>, <<81937773, 54855213>>, <<114207776, 46826170>>, <<118668859, 15315787>>, <<74014086, 34218768>>,
       <<79469305, 39248767>>, <<102952278, 11939733>>, <<35404320, 9410347>>, <<73138169, 20413558>>, <<105608629, 26105230>>,
       <<79786890, 29622253>>, <<72811361, 21326968>>, <<114864697, 40663857>>, <<130902890, 45313830>>, <<34761267, 50223273>>,
       <<10042212, 43365155>>, <<82332783, 11288167>>, <<19928516, 46169481>>, <<130142397, 9591894>>, <<63698641, 64444640>>,
       <<71688393, 48388683>>, <<109704704, 48229593>>, <<116741149, 49653317>>, <<19101693, 28580457>>, <<60850477, 64867864>>,
       <<24216233, 11563881>>, <<61801723, 34378309>>, <<17886141, 45790741>>, <<117710992, 39225474>>, <<47743482, 53768746>>,
       <<52243177, 32745189>>, <<120461281, 13395388>>, <<110511584, 32349736>>, <<45099417, 880849>>, <<67106913, 24954466>>,
       <<89013469, 51170419>>, <<25210981, 48359006>>, <<18278713, 32432230>>, <<115085755, 20665977>>, <<21755700, 13893698>>,
       <<95000112, 6413024>>, <<99051071, 30951373>>, <<79399849, 33328554>>, <<46416690, 63235361>>, <<115118020, 9004245>>,
       <<105565586, 61457151>>, <<9540680, 50578799>>, <<120431262, 60845644>>, <<85448367, 40258825>>, <<38834916, 54600461>>,
       <<22627433, 4365786>>, <<13160435, 1261749>>, <<108900424, 3457569>>, <<113801277, 65811217>>, <<46676056, 38032609>>,
       <<24156546, 15966659>>, <<9834311, 24863329>>, <<55567076, 27861592>>, <<39975436, 34613980>>, <<6971785, 64627926>>,
       <<39956618, 26847437>>, <<110216629, 6596744>>, <<8739677, 6485755>>, <<54220238, 10980630>>, <<69020946, 19747026>>,
       <<21720138, 43591445>>, <<4891806, 23091629>>, <<9963793, 36413931>>, <<19303104, 26537396>>, <<130787001, 19299282>>,
       <<115671522, 51500544>>, <<94644140, 49154910>>, <<120735756, 6781687>>, <<43678297, 16448282>>, <<33476657, 57294328>>,
       <<116753153, 64868655>>, <<81375171, 31701466>>, <<123935099, 52052804>>, <<48187648, 35008126>>, <<55439017, 28682296>>,
       <<96348415, 66620976>>, <<118435737, 43484850>>, <<22231251, 65551417>>, <<35316605, 47727598>>, <<1837253, 42396400>>,
       <<75109226, 16172337>>, <<123967947, 14386932>>, <<76215752, 1181695>>, <<19948087, 48973721>>, <<92771122, 40342892>>,
       <<87223653, 45014502>>, <<14121754, 60237981>>, <<122706868, 18844672>>, <<88576771, 12618030>>, <<65852485, 15202772>>,
       <<46180490, 30637531>>, <<21540669, 19345652>>, <<62782067, 46909039>>, <<49085051, 63009342>>, <<31266451, 18617575>>,
       <<86757575, 23955209>>, <<88825578, 64225629>>, <<128091812, 17871759>>, <<129987163, 59494009>>, <<62537708, 23022210>>,
       <<96125968, 43382846>>, <<50340920, 13441353>>, <<58177436, 27850181>>, <<76101078, 36185077>>, <<131705512, 48766735>>,
       <<5631826, 1102728>>, <<62141055, 35809827>>, <<45153127, 35563094>>, <<108024840, 39822429>>, <<127577663, 55612184>>,
       <<63358736, 28310071>>, <<10706309, 34271977>>, <<79777994, 47056359>>, <<78856589, 63681993>>, <<91377338, 57457261>>,
       <<104233226, 51479803>>, <<62182073, 32962502>>, <<73726042, 35232422>>, <<102993403, 37101186>>, <<3678200, 59617>>,
       <<32218154, 33796362>>, <<92293349, 3403534>>, <<131216046, 26423376>>, <<126604628, 57878549>>, <<37820293, 50550511>>,
       <<130484046, 26642353>>, <<37448503, 5865827>>, <<60769683, 16453198>>, <<21313845, 29892498>>, <<80888205, 16392527>>,
       <<52576752, 12522415>>, <<91950166, 33063038>>, <<128463781, 15449208>>, <<17151227, 40110940>>, <<88233728, 49689787>>,
       <<80748013, 35960671>>, <<36804389, 22968711>>, <<4726198, 17476812>>, <<126031528, 18389076>>, <<93301174, 66191863>>,
       <<83913557, 57773694>>, <<13745186, 1715742>>, <<120783835, 26588776>>, <<53557646, 2868043>>, <<62438391, 45084629>>,
       <<74667336, 6352195>>, <<59863564, 7793611>>, <<127984666, 34026607>>, <<62732255, 42903748>>, <<90938327, 25795615>>,
       <<103728607, 20307363>>, <<125209295, 53687288>>, <<22865496, 4827127>>, <<45587140, 24898823>>, <<127501017, 10879578>>,
       <<81350890, 19299884>>, <<50008756, 18227665>>, <<118297896, 8474151>>, <<15935375, 10249479>>, <<33994220, 38237879>>,
       <<9280116, 4579574>>, <<89998335, 14505348>>, <<65329115, 3075123>>, <<40860175, 36739614>>, <<58990354, 14592475>>,
       <<33995566, 6834118>>, <<95189071, 3517319>>, <<101963447, 38189493>>, <<51213694, 35097009>>, <<116593655, 3806097>>,
       <<6005509, 2199989>>, <<75924108, 13350870>>, <<20597231, 17257237>>, <<15757462, 29995176>>, <<74930861, 5403198>>,
       <<11674891, 4312082>>, <<9963370, 56349073>>, <<17998419, 21636856>>, <<50532687, 52405926>>, <<111441216, 66233134>>,
       <<38792348, 21878787>>, <<16412982, 55130037>>, <<103030046, 24787279>>, <<109673829, 41500537>>, <<133698465, 61775539>>,
       <<6595177, 58306689>>, <<22151738, 58880281>>, <<58192087, 56622395>>, <<133057052, 59287473>>, <<72447825, 67103441>>,
       <<118590318, 33328727>>, <<30094334, 43800463>>, <<63172032, 52756563>>, <<92185650, 59645680>>, <<30413718, 37842186>>,
       <<70109667, 43271462>>, <<110726890, 1575757>>, <<109473809, 3779366>>, <<93503051, 37916568>>, <<111246597, 23527431>>,
       <<133680257, 62106975>>, <<81206402, 34837114>>, <<33442618, 41863604>>, <<29794712, 9941470>>, <<7589616, 30505344>>,
       <<123320747, 9755495>>, <<76688388, 38091267>>, <<80907015, 58700359>>, <<117137432, 7551281>>, <<92719479, 36165799>>,
       <<52653924, 41981522>>, <<78606671, 25031719>>, <<11028125, 50630855>>, <<34001359, 32339140>>, <<46104993, 35477867>>,
       <<106655426, 19588120>>, <<88775771, 36764154>>, <<81048123, 61634122>>, <<53025138, 33941961>>, <<47209634, 6511578>>,
       <<51623834, 37617472>>, <<6719862, 10093148>>, <<48399014, 119551>>, <<122047703, 10150531>>, <<109405586, 50465237>>,
       <<33440050, 7735669>>, <<66934405, 8979310>>, <<99943035, 52155719>>, <<26864489, 45510738>>, <<47808327, 56435803>>,
       <<78714476, 53836736>>, <<25205245, 47246399>>, <<122067982, 22943691>>, <<2545030, 55103050>>, <<118244736, 17427454>>,
       <<89814081, 18633984>>, <<53341333, 25466423>>, <<38702947, 54358420>>, <<116543972, 35008347>>, <<95503607, 24983731>>,
       <<28252990, 59540300>>, <<42600257, 13212953>>, <<12498434, 46724303>>, <<84380913, 45841994>>, <<56866754, 38739996>>,
       <<42643562, 57875888>>, <<94477991, 43115796>>, <<34106929, 36487711>>, <<19033953, 63038204>>, <<106835702, 44065887>>,
       <<119023633, 52058233>>, <<108349924, 16085258>>, <<74979431, 31113246>>, <<96262333, 4211575>>, <<115845558, 47408558>>,
       <<5209003, 34989455>>, <<40175961, 57391228>>, <<47714041, 46950244>>, <<98423481, 34526041>>, <<45100894, 40010959>>,
       <<102535571, 16839868>>, <<34548969, 23728694>>, <<127020959, 33875390>>, <<58422929, 39005476>>, <<79254446, 562448>>,
       <<84344779, 40551841>>, <<110278099, 54488011>>, <<75639124, 64986415>>, <<28396700, 66846547>>, <<59147364, 62088526>>,
       <<75521380, 21278128>>, <<9730030, 34885568>>, <<111272603, 43704544>>, <<41257143, 59249582>>, <<123553271, 21892039>>,
       <<49923696, 27095666>>, <<127647116, 625331>>, <<96901291, 56928434>>, <<52762054, 2144924>>, <<94132311, 42186819>>,
       <<35622, 66115742>>, <<11378265, 39971953>>, <<78271534, 50147638>>, <<41288294, 14660419>>, <<54606693, 28541546>>,
       <<94643715, 61102068>>, <<63511301, 29204949>>, <<82180494, 21560314>>, <<99580922, 49454445>>, <<112140206, 11928666>>,
       <<14195936, 40707028>>, <<111214604, 55542977>>, <<99745094, 3424963>>, <<30486535, 41556254>>, <<11273180, 60198334>> >>,
    \* random.seed(32)
    <<
       <<10391375, 62176199>>, <<28671160, 9706966>>, <<40685196, 46865741>>, <<120824635, 15958149>>, <<66605882, 1632194>>,
       <<96669053, 2587065>>, <<13453363, 21791615>>, <<68307033, 22168815>>, <<113155333, 3829397>>, <<70168935, 46343186>>,
       <<126795588, 66616325>>, <<118353210, 31458686>>, <<49789498, 40346672>>, <<100139, 36400490>>, <<101370245, 52447916>>,
       <<16966356, 35209368>>, <<1263101, 32579305>>, <<98070766, 51874737>>, <<113124332, 13620752>>, <<112283535, 19315946>>,
       <<127968001, 62081597>>, <<27067722, 29947818>>, <<10938847, 22427158>>, <<16206799, 2359444>>, <<131230803, 35263323>>,
       <<15022372, 48833514>>, <<21413422, 29451204>>, <<2697721, 28949991>>, <<6621262, 61861510>>, <<5136054, 37282516>>,
       <<47383204, 15219398>>, <<21913503, 31407293>>, <<41563833, 48884113>>, <<124662795, 33043922>>, <<22479081, 35879195>>,
       <<109301052, 54528768>>, <<99100656, 20084902>>, <<76305737, 38652631>>, <<77268468, 5528858>>, <<103367030, 2224124>>,
       <<78798407, 19475830>>, <<30775517, 19354845>>, <<44221816, 5280244>>, <<32750900, 44489668>>, <<53773484, 56462185>>,
       <<132508027, 19416101>>, <<57277674, 46750574>>, <<9347052, 53237971>>, <<63987740, 611822>>, <<109077094, 12088988>>,
       <<59800794, 10932375>>, <<94261308, 66530293>>, <<12201086, 57938667>>, <<8375745, 8878061>>, <<88817965, 17441287>>,
       <<6478111, 37043963>>, <<40534814, 9767870>>, <<51623198, 3753492>>, <<25972964, 39556866>>, <<4880791, 32863739>>,
       <<904418, 33847392>>, <<127725502, 35199418>>, <<92435909, 21965723>>, <<127747409, 24196951>>, <<65995711, 32122143>>,
       <<128099338, 62816162>>, <<115769127, 16755405>>, <<82950547, 21666938>>, <<70485838, 38324522>>, <<68272420, 15647240>>,
       <<30261190, 25736790>>, <<50494363, 38962496>>, <<97026352, 24881500>>, <<26204680, 55580644>>, <<114074096, 64292942>>,
       <<68428754, 8631710>>, <<81090139, 45925145>>, <<110305055, 23547951>>, <<86730605, 24863314>>, <<18484798, 41687631>>,
       <<33252689, 64945424>>, <<141868, 33500995>>, <<3675765, 7227663>>, <<127705551, 77153>>, <<79589713, 57360364>>,
       <<130027926, 11198911>>, <<104766161, 57346678>>, <<42387682, 52189466>>, <<129811079, 27972182>>, <<123824077, 15193789>>,
       <<61246668, 26887370>>, <<11175246, 65641950>>, <<42739684, 29128217>>, <<22320239, 63095228>>, <<49067810, 20326594>>,
       <<11075687, 61537659>>, <<95729929, 33704514>>, <<131473912, 52422525>>, <<28287878, 8709844>>, <<104694486, 46424491>>,
       <<78439233, 17586633>>, <<64779607, 45661006>>, <<121776125, 24594517>>, <<50642305, 6246482>>, <<110203309, 51463452>>,
       <<4665222, 40774122>>, <<129567580, 58492290>>, <<24508523, 59308028>>, <<501919, 3239152>>, <<118289106, 40128158>>,
       <<96828483, 13299982>>, <<90571267, 35561711>>, <<102804821, 21595042>>, <<50648666, 14806375>>, <<15356561, 26861192>>,
       <<42707277, 12785661>>, <<127997933, 43960731>>, <<131729044, 10469856>>, <<30872927, 41586817>>, <<59354040, 3890203>>,
       <<60479949, 45677181>>, <<121362030, 1745821>>, <<741809, 31176969>>, <<111295356, 56783264>>, <<34016822, 1078897>>,
       <<73704063, 4592179>>, <<17327370, 23342759>>, <<11284620, 48793854>>, <<118525369, 8093303>>, <<67501687, 14920750>>,
       <<130435276, 45485874>>, <<116078254, 22707874>>, <<100990239, 42865471>>, <<10018567, 20469814>>, <<79094659, 12182974>>,
       <<133176053, 15567696>>, <<67512650, 53478911>>, <<8844468, 6760508>>, <<24791679, 64099574>>, <<132600595, 1299932>>,
       <<131109424, 1127060>>, <<33157201, 65494582>>, <<42741613, 24476028>>, <<95961878, 43357027>>, <<68134818, 23403013>>,
       <<24898742, 41326006>>, <<132133254, 613464>>, <<83310252, 46357152>>, <<49010466, 769843>>, <<2950755, 37675013>>,
       <<68501534, 1762708>>, <<100929449, 63240789>>, <<23871947, 7225727>>, <<11709893, 45740543>>, <<97188350, 42871092>>,
       <<123532588, 15188917>>, <<50590470, 38090171>>, <<63481702, 3566587>>, <<85418886, 43141245>>, <<69790175, 59478759>>,
       <<17227608, 30017078>>, <<36899182, 47256005>>, <<27661283, 58326908>>, <<26468830, 20424992>>, <<11836908, 44117519>>,
       <<52505119, 50785820>>, <<29426869, 56369423>>, <<113756688, 2615481>>, <<43220080, 29915642>>, <<129276345, 37151661>>,
       <<108858307, 58737451>>, <<36136194, 43606370>>, <<20687595, 56493029>>, <<76786865, 14365777>>, <<63619544, 20279680>>,
       <<71806964, 63206420>>, <<16536044, 1823755>>, <<71290209, 24847649>>, <<101909944, 52382549>>, <<59746683, 9273743>>,
       <<34255194, 64802888>>, <<123788734, 20113780>>, <<39737999, 64152212>>, <<133584561, 46758396>>, <<92440203, 15946773>>,
       <<312073, 46750768>>, <<60054379, 10266745>>, <<20021720, 3272868>>, <<105542477, 15500014>>, <<56505291, 16350477>>,
       <<11480531, 40907451>>, <<127785031, 325835>>, <<107275568, 55352059>>, <<81565807, 45899231>>, <<76178929, 51481352>>,
       <<9970752, 18892867>>, <<131870297, 8897291>>, <<40498229, 25213200>>, <<70323850, 59854696>>, <<65768941, 24411509>>,
       <<63399432, 38091997>>, <<2440841, 37814860>>, <<119882456, 54224259>>, <<66101957, 62432186>>, <<52802862, 17169907>>,
       <<115516874, 47747414>>, <<115440748, 60611544>>, <<96501294, 9943278>>, <<121800855, 23258561>>, <<46919882, 35235835>>,
       <<14063521, 59796191>>, <<46679482, 25458106>>, <<80749263, 13267668>>, <<105612338, 45951551>>, <<98568434, 6302686>>,
       <<84513196, 65768839>>, <<80645879, 1926840>>, <<89396873, 24441592>>, <<77151256, 38926693>>, <<2045827, 57103927>>,
       <<73367893, 38703025>>, <<36977824, 18776659>>, <<9701364, 15446499>>, <<82188186, 59137478>>, <<112862563, 29968678>>,
       <<37937443, 28108144>>, <<89933670, 1158675>>, <<83977193, 8182279>>, <<91455367, 26730309>>, <<117030734, 24749939>>,
       <<93372263, 4165021>>, <<10675734, 37027282>>, <<82824727, 1050628>>, <<46762520, 65329470>>, <<55924743, 13234420>>,
       <<90582570, 46187051>>, <<23309016, 8165042>>, <<84161168, 49680952>>, <<125929359, 59629098>>, <<10262761, 55373315>>,
       <<114281419, 35731061>>, <<95023297, 10900012>>, <<54248095, 53037610>>, <<102777905, 54945274>>, <<10652089, 48479409>>,
       <<21595126, 55898045>>, <<133895750, 37374515>>, <<83471760, 47404828>>, <<22496543, 11904340>>, <<17368393, 27447795>>,
       <<59973478, 36869271>>, <<73330598, 25842260>>, <<132849571, 12272746>>, <<24979769, 19169828>>, <<85319815, 10148724>>,
       <<59118165, 39919193>>, <<74785096, 58018259>>, <<126400391, 1615675>>, <<15878926, 54316734>>, <<112104004, 11937550>>,
       <<98182873, 59414834>>, <<35924389, 22415832>>, <<16107866, 35212267>>, <<100237315, 61228024>>, <<114526845, 9676582>>,
       <<46369056, 32509137>>, <<18533388, 63378071>>, <<74500252, 28792152>>, <<90006159, 6184960>>, <<48127073, 66748837>>,
       <<55144834, 48002007>>, <<13741190, 14856418>>, <<18947328, 31143333>>, <<29847710, 44978520>>, <<101713648, 31020814>>,
       <<16334177, 37609905>>, <<26575670, 19035095>>, <<62314517, 52499789>>, <<28203389, 23020177>>, <<32176335, 16877923>>,
       <<98889115, 2728970>>, <<31388015, 27338048>>, <<75370768, 21680188>>, <<11334907, 61178257>>, <<69482908, 31017739>>,
       <<93708991, 5433121>>, <<60066838, 51003166>>, <<25498147, 6096381>>, <<4052197, 65189976>>, <<36919147, 23932526>>,
       <<54843712, 53596212>>, <<13536214, 51391256>>, <<57228784, 64840535>>, <<68234719, 14430471>>, <<8600522, 31603151>>,
       <<89158058, 66749402>>, <<128278611, 3111352>>, <<94299361, 25661543>>, <<60341506, 28076432>>, <<111776482, 58600387>>,
       <<126829039, 2870032>>, <<127475638, 13527330>>, <<127712606, 48196354>>, <<102767670, 20918477>>, <<126596767, 10989401>>,
       <<102241024, 41869578>>, <<43613725, 30595563>>, <<18048042, 55770966>>, <<65370888, 30187484>>, <<94349250, 56559484>>,
       <<36109896, 51922135>>, <<48314523, 57198081>>, <<11040029, 19978898>>, <<5494291, 46125041>>, <<34766981, 61586288>>,
       <<113884187, 44377730>>, <<8100065, 33548306>>, <<20113181, 6193958>>, <<53621839, 13977978>>, <<129943740, 63100727>>,
       <<29218829, 42082759>>, <<5862080, 20311969>>, <<6560249, 29967639>>, <<46195043, 5185098>>, <<745460, 4373994>>,
       <<90005325, 63587310>>, <<8340249, 12768515>>, <<25487794, 32199463>>, <<10275516, 4575494>>, <<36256941, 66159592>>,
       <<11863034, 40609934>>, <<22052912, 25928756>>, <<26022074, 59297630>>, <<31314495, 34002584>>, <<85158272, 30187275>>,
       <<49625440, 62835866>>, <<27821349, 44155033>>, <<1624018, 66516069>>, <<116143394, 53953177>>, <<114589569, 30580111>>,
       <<127254255, 20589013>>, <<95234283, 1068926>>, <<58067115, 20134422>>, <<44033267, 13814156>>, <<26162543, 51080571>>,
       <<59091728, 29344336>>, <<56131392, 45578393>>, <<125857407, 29785898>>, <<26875853, 36174841>>, <<93821584, 49200269>>,
       <<98079616, 20679643>>, <<88362543, 42312442>>, <<82328696, 44637175>>, <<5663298, 4838302>>, <<19714750, 12366188>>,
       <<69553609, 55852112>>, <<80995680, 2582369>>, <<129180600, 59875108>>, <<105457939, 12267706>>, <<29091459, 40100143>>,
       <<19886776, 20662766>>, <<103833258, 39495599>>, <<1442052, 54274922>>, <<122396526, 38647702>>, <<11635021, 4695741>>,
       <<80394680, 15322552>>, <<113507897, 12178986>>, <<11288389, 9174884>>, <<13675339, 29646095>>, <<84782111, 20128806>>,
       <<96618430, 50989813>>, <<1382553, 24816202>>, <<62874346, 41537352>>, <<106554508, 59702959>>, <<104143075, 10048972>>,
       <<52782425, 16051292>>, <<1089592, 22659538>>, <<82914647, 31023143>>, <<72000035, 28778491>>, <<56632141, 56317171>>,
       <<80011978, 19148933>>, <<78415643, 52016422>>, <<64598575, 63689455>>, <<73731126, 15134784>>, <<75370461, 22499878>>,
       <<103573069, 1764945>>, <<106191398, 30620752>>, <<2917460, 29061087>>, <<105273279, 59884502>>, <<32626613, 52306903>>,
       <<56637701, 50922020>>, <<29189744, 2929705>>, <<41380659, 46300195>>, <<53448797, 2017817>>, <<60926933, 8084058>>,
       <<14256170, 22095583>>, <<39478615, 19828010>>, <<61300384, 44914871>>, <<51818231, 683929>>, <<71136281, 64252865>>,
       <<9262728, 491670>>, <<74973381, 66468147>>, <<121491276, 32259334>>, <<99175929, 33252935>>, <<74802687, 43839755>>,
       <<108139881, 33704193>>, <<50982351, 31665072>>, <<23732419, 7753573>>, <<82194262, 29389230>>, <<32796161, 44469880>>,
       <<36673875, 56235174>>, <<103192413, 18566123>>, <<68363030, 41905031>>, <<23438091, 3224561>>, <<29128569, 29389659>>,
       <<98522898, 926889>>, <<87264629, 45022883>>, <<120598491, 60945018>>, <<99176522, 13946088>>, <<38248139, 50110483>>,
       <<94286665, 20052617>>, <<118340170, 59590163>>, <<118350671, 18300551>>, <<122560610, 45154959>>, <<19452816, 39213136>>,
       <<33516314, 46173028>>, <<23228045, 51820750>>, <<109570870, 66540877>>, <<93033349, 60467130>>, <<74893121, 58319848>>,
       <<26359174, 45028368>>, <<55226702, 38270635>>, <<92670350, 12663344>>, <<4297482, 26101967>>, <<119562423, 13368299>>,
       <<94502602, 3985508>>, <<120027508, 24503481>>, <<127328760, 35213418>>, <<69177152, 65471420>>, <<40395918, 37420964>>,
       <<50963561, 53087480>>, <<65461969, 65617304>>, <<81203690, 19619034>>, <<36764883, 30834734>>, <<38731402, 50108261>>,
       <<68796628, 33077947>>, <<99252948, 49396332>>, <<1875893, 9054438>>, <<121003050, 38879743>>, <<87202987, 8256339>>,
       <<67294503, 38783639>>, <<74449754, 60851909>>, <<110370483, 48744143>>, <<57593418, 16304542>>, <<43640248, 26714748>>,
       <<12147165, 45960607>>, <<44862821, 37666633>>, <<8151072, 30691134>>, <<34211498, 53651367>>, <<86078988, 45116160>>,
       <<48023790, 35048263>>, <<122232809, 22576801>>, <<62975080, 9846597>>, <<112201647, 26377597>>, <<27856175, 57541950>>,
       <<131241457, 24803980>>, <<114398291, 61405902>>, <<121450065, 15688231>>, <<108116379, 46464805>>, <<69605172, 18707119>>,
       <<20746502, 56645813>>, <<113193061, 3254763>>, <<128386272, 33174258>>, <<61363697, 8128593>>, <<102753006, 45393537>>,
       <<83905330, 66314347>>, <<103372045, 45024864>>, <<121943078, 59687430>>, <<87262628, 35291470>>, <<19407870, 53748735>>,
       <<58811013, 16968368>>, <<72774231, 57843318>>, <<30297699, 30665309>>, <<94718815, 16403798>>, <<43940178, 16590962>>,
       <<11758889, 18050825>>, <<48137597, 42958450>>, <<98646694, 2343998>>, <<85306079, 46880756>>, <<43473019, 48492543>>,
       <<56262912, 42276531>>, <<92521902, 46062471>>, <<114098701, 15226361>>, <<14446510, 43568542>>, <<26415774, 56397583>>,
       <<55515413, 48663199>>, <<29272241, 36297759>>, <<24214893, 61602795>>, <<40571369, 3924891>>, <<19016587, 11355126>>,
       <<4954159, 47210522>>, <<57293376, 31803666>>, <<58661044, 3979653>>, <<82818975, 29143197>>, <<124989274, 22531229>>,
       <<126161526, 60271522>>, <<63967549, 46509351>>, <<37667767, 45005721>>, <<82939636, 49190715>>, <<59549059, 12725926>>,
       <<79370023, 64623521>>, <<124559973, 288834>>, <<101922425, 55054847>>, <<132409830, 51156148>>, <<108922394, 51997063>>,
       <<102827136, 49801637>>, <<133564794, 14650600>>, <<98840013, 16561579>>, <<100360917, 3159971>>, <<90231997, 45011929>>,
       <<130032824, 64278961>>, <<71366101, 19699229>>, <<52457263, 16627537>>, <<82371017, 65722655>>, <<25618759, 31808234>>,
       <<105659678, 51034411>>, <<70123863, 16074685>>, <<48042200, 8450137>>, <<90819769, 51943315>>, <<95254225, 59160357>>,
       <<82101209, 49072835>>, <<42131140, 57692114>>, <<69679480, 6677784>>, <<1638118, 26665015>>, <<54809216, 26803437>>,
       <<3142888, 45180398>>, <<79902370, 6543453>>, <<10422673, 58558282>>, <<31167527, 42305369>>, <<104764339, 5181887>>,
       <<94836343, 45291230>>, <<29793981, 3479882>>, <<3921380, 15199048>>, <<128489535, 32360199>>, <<57811434, 65162190>>,
       <<7771980, 2698910>>, <<70403723, 58497788>>, <<109708582, 3917126>>, <<79729609, 843861>>, <<38832098, 13554708>>,
       <<69060616, 16547862>>, <<49223795, 2641063>>, <<126893278, 19088522>>, <<106862758, 21712565>>, <<27921122, 47968252>>,
       <<82128695, 47739342>>, <<108250482, 58445323>>, <<27320700, 7999339>>, <<19054883, 63158881>>, <<76409997, 10440224>>,
       <<85731698, 47758169>>, <<56836064, 24731032>>, <<72580918, 60192027>>, <<80305845, 6382781>>, <<93592098, 13741130>>,
       <<13247018, 16585925>>, <<45473968, 50419635>>, <<19858501, 18634363>>, <<29828709, 27892152>>, <<122624172, 24302774>>,
       <<83508941, 28603946>>, <<111851030, 38839373>>, <<54204361, 66061314>>, <<28867679, 17039061>>, <<11366827, 36574841>>,
       <<104015987, 35124953>>, <<115598995, 60601619>>, <<98190351, 40803435>>, <<29701171, 46951623>>, <<102462423, 30317557>>,
       <<119587025, 65807234>>, <<41264412, 36362120>>, <<66510259, 48552729>>, <<132072314, 9369984>>, <<26922215, 7856740>>,
       <<87567642, 43815084>>, <<104246241, 54008032>>, <<76053834, 3844511>>, <<122918136, 28813946>>, <<67150284, 23915663>>,
       <<21744711, 2694058>>, <<48495862, 14483880>>, <<42223187, 50250596>>, <<68150666, 7202010>>, <<50366850, 17488966>>,
       <<111415852, 11844917>>, <<83971306, 59370266>>, <<107294650, 25950023>>, <<80477104, 21417622>>, <<9569054, 30661228>> >>
 >>

\* random.random() after random.seed(s) and i earlier draws.
Random(s, i) == MersenneTwister[s + 1][i + 1]

\* random.expovariate(1.0 / mean) = -math.log(1.0 - random()) / (1.0 / mean),
\* to the nearest millionth of a minute; 1.0 / mean raises for a mean of 0.
sample_interarrival(mean, u) ==
    IF mean = 0 THEN "ZeroDivisionError"
    ELSE IF mean > 0 THEN TimesRound(NegLog1mU(u), mean)
    ELSE 0 - TimesRound(NegLog1mU(u), 0 - mean)

\* random.triangular(low, high, mode), to the nearest millionth of a
\* minute: with c = (mode - low) / (high - low), the result is
\* low + (high - low) * sqrt(u * c) for u <= c and
\* high - (high - low) * sqrt((1 - u) * (1 - c)) for u > c; for high = low
\* the division raises and low is returned.
sample_triangular(min_val, mode_val, max_val, u) ==
    IF max_val = min_val THEN min_val
    ELSE LET sg == Sgn(max_val - min_val)
             wa == Abs(max_val - min_val)
             ms == sg * (mode_val - min_val)
             n == Numerator(u)
             c == Mul(Abs(ms), 2 ^ 25)
             above == ms < 0 \/ Less3(<<c.h, c.l, 0>>, Mul3(n, wa))
         IN  IF above
             THEN max_val - sg * RootRound(DSub(TwoTo53, n), wa - ms, wa)
             ELSE min_val + sg * RootRound(n, ms, wa)

get_service_time(service_time_dict, name, u) ==
    sample_triangular(service_time_dict[name][1], service_time_dict[name][2],
                      service_time_dict[name][3], u)

\* 0 = expedited, 1 = normal; p_priority is in millionths.
sample_priority(p_priority, u) == IF Below(u, p_priority) THEN 0 ELSE 1

\* Variant: the two test types are swapped.
sample_test_typeSwapped(p_fast, u) == IF Below(u, p_fast) THEN "slow" ELSE "fast"

sample_test_type(p_fast, u) == IF Below(u, p_fast) THEN "fast" ELSE "slow"

\* ------------------------------------------------------------ the logging
make_log ==
    [patients |-> <<>>, wait_reg |-> <<>>, wait_sample |-> <<>>,
     wait_machine |-> <<>>, wait_verify |-> <<>>, system_time |-> <<>>,
     counts |-> [priority |-> 0, normal |-> 0, fast |-> 0, slow |-> 0]]

\* Variant: one log shared by all runs (a module-level log).
KeepLog(old) == old

\* log = make_log() in run_simulation: every run starts on a log of its own.
FreshLog(old) == make_log

\* ---------------------------------------------------------- configuration
\* The service-time table of the application.
Triple(a, m, b) == <<Minutes(a), Minutes(m), Minutes(b)>>

service_time ==
    [registration |-> Triple(2, 3, 5), sampling |-> Triple(3, 5, 8),
     test_fast |-> Triple(8, 12, 18), test_slow |-> Triple(20, 30, 45),
     verification |-> Triple(1, 2, 4)]

\* A table of short services, under which the stages overlap within a few
\* arrivals.
ShortServiceTime ==
    [registration |-> Triple(1, 2, 4), sampling |-> Triple(1, 2, 3),
     test_fast |-> Triple(2, 3, 5), test_slow |-> Triple(3, 5, 8),
     verification |-> Triple(1, 2, 4)]

\* A table of constant services (min = mode = max), under which services
\* that start at one instant end at one instant.
FixedServiceTime ==
    [registration |-> Triple(2, 2, 2), sampling |-> Triple(4, 4, 4),
     test_fast |-> Triple(3, 3, 3), test_slow |-> Triple(5, 5, 5),
     verification |-> Triple(1, 1, 1)]

BaseParams ==
    [mean_interarrival |-> Minutes(5), p_priority |-> Percent(50),
     p_fast |-> Percent(50),
     c_reg |-> 1, c_phleb |-> 1, c_fast |-> 1, c_slow |-> 1,
     use_verify |-> TRUE, c_verify |-> 1,
     sim_time |-> Minutes(60), warm_up |-> Minutes(0),
     service_time |-> service_time]

Configs ==
    { [BaseParams EXCEPT !.mean_interarrival = m, !.c_reg = c, !.c_phleb = c,
                         !.use_verify = v, !.sim_time = h.t, !.warm_up = h.w,
                         !.service_time = h.st] :
        m \in {Minutes(2), Minutes(5)}, c \in {1, 2}, v \in BOOLEAN,
        h \in { [t |-> Minutes(60), w |-> Minutes(0), st |-> service_time],
                [t |-> Minutes(12), w |-> Minutes(2), st |-> ShortServiceTime],
                [t |-> Minutes(30), w |-> Minutes(0), st |-> FixedServiceTime] } }

Seeds == 0..MaxSeed


\* ------------------------------------------------------ the event schedule
\* simpy event priorities: URGENT for Initialize and for the stop event of
\* run(until), NORMAL for everything else.
URGENT == 0
NORMAL == 1

NoPid == 0 - 1
NoRes == "none"
Unset == 0 - 1

Event(t, prio, id, kind, pid, res) ==
    [t |-> t, prio |-> prio, eid |-> id, kind |-> kind, pid |-> pid, res |-> res]

\* The heap order of Environment._queue: (time, priority, event id).
EventBefore(a, b) ==
    \/ a.t < b.t
    \/ a.t = b.t /\ a.prio < b.prio
    \/ a.t = b.t /\ a.prio = b.prio /\ a.eid < b.eid

\* Variant: the schedule as a plain first-in first-out list.
ScheduleFifo(q, ev) == Append(q, ev)

\* Environment.schedule: push, keeping the queue in heap order.
Schedule(q, ev) ==
    LET k == Cardinality({i \in 1..Len(q) : EventBefore(q[i], ev)})
    IN  SubSeq(q, 1, k) \o <<ev>> \o SubSeq(q, k + 1, Len(q))

RECURSIVE ScheduleAll(_, _)
ScheduleAll(q, evs) ==
    IF evs = <<>> THEN q ELSE ScheduleAll(Schedule(q, Head(evs)), Tail(evs))

\* ---------------------------------------------------- the priority resource
PoolNames == {"reg", "phleb", "machine_fast", "machine_slow", "verify"}

NewPool(capacity) == [capacity |-> capacity, users |-> <<>>, put_queue |-> <<>>]

\* PriorityRequest.key = (priority, time): the order of the put queue.
KeyLeq(a, b) ==
    \/ a.priority < b.priority
    \/ a.priority = b.priority /\ a.time <= b.time

\* Variant: a plain list as the put queue (simpy.Resource), no sorting.
AppendUnsorted(q, item) == Append(q, item)

\* SortedQueue.append: append, then a stable sort by key.
SortedAppend(q, item) ==
    LET k == Cardinality({i \in 1..Len(q) : KeyLeq(q[i], item)})
    IN  SubSeq(q, 1, k) \o <<item>> \o SubSeq(q, k + 1, Len(q))

\* A granted request, as it sits in Resource.users: usage_since is set.
Granted(req, t) ==
    [priority |-> req.priority, time |-> req.time, pid |-> req.pid,
     seq |-> req.seq, usage_since |-> t]

\* Variant: _do_put without the capacity test.
DoPutAlways(pool) == TRUE

\* Resource._do_put: a request is granted when a slot is free.
\* Variant: a slot is granted only while another one stays free.
DoPutSpare(pool) == Len(pool.users) + 1 < pool.capacity

DoPutOk(pool) == Len(pool.users) < pool.capacity

\* Variant: a preemptive pool (simpy.PreemptiveResource): an expedited head of
\* the queue evicts a normal user of a full pool.
TriggerPutPreempt(pool, t) ==
    IF pool.put_queue = <<>> THEN [pool |-> pool, granted |-> <<>>]
    ELSE LET head == Head(pool.put_queue)
             victims == {i \in 1..Len(pool.users) : pool.users[i].priority > head.priority}
             kept == IF Len(pool.users) < pool.capacity \/ victims = {}
                     THEN pool.users
                     ELSE LET v == CHOOSE i \in victims : \A j \in victims : i >= j
                          IN  SubSeq(pool.users, 1, v - 1)
                                \o SubSeq(pool.users, v + 1, Len(pool.users))
         IN  IF Len(kept) < pool.capacity
             THEN [pool |-> [pool EXCEPT !.users = Append(kept, Granted(head, t)),
                                         !.put_queue = Tail(@)],
                   granted |-> <<head.pid>>]
             ELSE [pool |-> pool, granted |-> <<>>]

\* BaseResource._trigger_put: _do_put returns None, so the loop looks at the
\* head of the put queue and stops. The result is the pool and the requests
\* granted (their events are to be scheduled).
TriggerPut(pool, t) ==
    IF pool.put_queue # <<>> /\ DoPutOk(pool)
    THEN [pool |-> [pool EXCEPT
                      !.users = Append(@, Granted(Head(pool.put_queue), t)),
                      !.put_queue = Tail(@)],
          granted |-> <<Head(pool.put_queue).pid>>]
    ELSE [pool |-> pool, granted |-> <<>>]

\* resource.request(priority=...): Put.__init__ queues the request and
\* calls _trigger_put.
Request(pool, pid, priority, t, sq) ==
    TriggerPut([pool EXCEPT !.put_queue =
                   SortedAppend(@, [priority |-> priority, time |-> t,
                                    pid |-> pid, seq |-> sq])], t)

\* list.remove: the first entry of the patient leaves the users.
RemoveUser(users, pid) ==
    LET hit == {i \in 1..Len(users) : users[i].pid = pid}
    IN  IF hit = {} THEN users
        ELSE LET k == CHOOSE i \in hit : \A j \in hit : i <= j
             IN  SubSeq(users, 1, k - 1) \o SubSeq(users, k + 1, Len(users))

\* Variant: leaving the with block does not give the slot back.
ReleaseNoop(pool, pid) == pool

\* resource.release(request), called on leaving the with block: Release's
\* _do_get removes the user at once; the put queue is looked at when the
\* release event is processed.
Release(pool, pid) == [pool EXCEPT !.users = RemoveUser(@, pid)]

Holders(pool) == {pool.users[i].pid : i \in 1..Len(pool.users)}
Pending(pool) == {pool.put_queue[i].pid : i \in 1..Len(pool.put_queue)}


\* ------------------------------------------------------ the patient process
\* The generator as created by env.process(patient(...)): nothing has run
\* yet, its locals are unset.  Its position pc is one of ARRIVED, QUEUED_REG,
\* IN_REG, QUEUED_SAMPLE, IN_SAMPLE, QUEUED_TEST, IN_TEST, QUEUED_VERIFY,
\* IN_VERIFY and DONE.
NewPatient(priority, test_type) ==
    [pc |-> "ARRIVED", priority |-> priority, test_type |-> test_type,
     arrival_time |-> Unset, q_start |-> Unset,
     wait_reg |-> Unset, wait_sample |-> Unset, wait_machine |-> Unset,
     wait_verify |-> Unset,
     service_reg |-> Unset, service_sample |-> Unset, service_test |-> Unset,
     service_verify |-> Unset,
     finish_time |-> Unset,
     req_time |-> [r \in PoolNames |-> Unset],
     usage_since |-> [r \in PoolNames |-> Unset],
     draw_idx |-> [r \in PoolNames |-> Unset]]

\* Variant: every test goes to the fast machines.
MachinePoolFastOnly(test_type) == "machine_fast"

\* The machine pool of the test stage.
MachinePool(test_type) ==
    IF test_type = "fast" THEN "machine_fast" ELSE "machine_slow"

\* The service-time entry of the test stage.
TestService(test_type) ==
    IF test_type = "fast" THEN "test_fast" ELSE "test_slow"

\* Variant: the test duration is drawn like the others, once the machine
\* has been granted.
DrawnOnEntryNever(pc) == FALSE

\* The queue states on whose entry the service duration of the stage is
\* drawn, before the request is made; the others draw it once the request
\* has been granted.
DrawnOnEntry(pc) == pc = "QUEUED_TEST"

\* Variant: q_start is set on arrival only and not again at the later stages.
QStartOnce(t, old) == IF old = Unset THEN t ELSE old

\* q_start = env.now on entering a stage.
QStart(t, old) == t

\* Variant: the operands of the subtraction exchanged.
WaitSinceSwapped(t, q_start) == q_start - t

\* wait_<stage> = env.now - q_start once the request is granted.
WaitSince(t, q_start) == t - q_start

\* Variant: the sampling stage is left out.
AfterServiceNoSampling(pc, hasVerify) ==
    CASE pc = "IN_REG" -> "QUEUED_TEST"
      [] pc = "IN_SAMPLE" -> "QUEUED_TEST"
      [] pc = "IN_TEST" -> IF hasVerify THEN "QUEUED_VERIFY" ELSE "DONE"
      [] pc = "IN_VERIFY" -> "DONE"

\* Where the generator goes when the service timeout of a stage fires.
AfterService(pc, hasVerify) ==
    CASE pc = "IN_REG" -> "QUEUED_SAMPLE"
      [] pc = "IN_SAMPLE" -> "QUEUED_TEST"
      [] pc = "IN_TEST" -> IF hasVerify THEN "QUEUED_VERIFY" ELSE "DONE"
      [] pc = "IN_VERIFY" -> "DONE"

\* The pool a queued or served patient is at.
PoolOf(pc, test_type) ==
    CASE pc \in {"QUEUED_REG", "IN_REG"} -> "reg"
      [] pc \in {"QUEUED_SAMPLE", "IN_SAMPLE"} -> "phleb"
      [] pc \in {"QUEUED_TEST", "IN_TEST"} -> MachinePool(test_type)
      [] pc \in {"QUEUED_VERIFY", "IN_VERIFY"} -> "verify"
      [] OTHER -> NoRes

\* Variant: the requests are made without the priority argument and take
\* the default of PriorityResource.request.
RequestPriorityDefault(p) == 0

\* The priority argument of every request of a patient process: the
\* priority it was created with.
RequestPriority(p) == p.priority

\* Variant: a strict comparison with the warm-up threshold.
CountedStrict(arrival_time, warm_up) == arrival_time > warm_up

\* The warm-up filter of the counted lists.
Counted(arrival_time, warm_up) == arrival_time >= warm_up

\* The record of a finished patient.
Record(pid, p, finish_time) ==
    [pid |-> pid, arrival |-> p.arrival_time, finish |-> finish_time,
     priority |-> p.priority, test_type |-> p.test_type,
     wait_reg |-> p.wait_reg, wait_sample |-> p.wait_sample,
     wait_machine |-> p.wait_machine, wait_verify |-> p.wait_verify,
     system_time |-> finish_time - p.arrival_time]

\* Variant: when a counted record is appended, the records of the patients
\* that arrived during warm-up are dropped from the full list.
AppendRecordPrune(lg, rec, warm_up, hasVerify) ==
    IF Counted(rec.arrival, warm_up)
    THEN [lg EXCEPT !.patients =
                        Append(SelectSeq(lg.patients,
                                   LAMBDA r : Counted(r.arrival, warm_up)), rec),
                    !.wait_reg = Append(@, rec.wait_reg),
                    !.wait_sample = Append(@, rec.wait_sample),
                    !.wait_machine = Append(@, rec.wait_machine),
                    !.wait_verify = IF hasVerify THEN Append(@, rec.wait_verify) ELSE @,
                    !.system_time = Append(@, rec.system_time)]
    ELSE [lg EXCEPT !.patients = Append(@, rec)]

\* Variant: wait_verify is counted whether or not there is a verification
\* pool.
AppendRecordVerifyAlways(lg, rec, warm_up, hasVerify) ==
    IF Counted(rec.arrival, warm_up)
    THEN [lg EXCEPT !.patients = Append(@, rec),
                    !.wait_reg = Append(@, rec.wait_reg),
                    !.wait_sample = Append(@, rec.wait_sample),
                    !.wait_machine = Append(@, rec.wait_machine),
                    !.wait_verify = Append(@, rec.wait_verify),
                    !.system_time = Append(@, rec.system_time)]
    ELSE [lg EXCEPT !.patients = Append(@, rec)]

\* Variant: the record is put at the front of the full list.
AppendRecordFront(lg, rec, warm_up, hasVerify) ==
    IF Counted(rec.arrival, warm_up)
    THEN [lg EXCEPT !.patients = <<rec>> \o @,
                    !.wait_reg = Append(@, rec.wait_reg),
                    !.wait_sample = Append(@, rec.wait_sample),
                    !.wait_machine = Append(@, rec.wait_machine),
                    !.wait_verify = IF hasVerify THEN Append(@, rec.wait_verify) ELSE @,
                    !.system_time = Append(@, rec.system_time)]
    ELSE [lg EXCEPT !.patients = <<rec>> \o @]

\* log["patients"].append(record) and the warm-up filter.
AppendRecord(lg, rec, warm_up, hasVerify) ==
    IF Counted(rec.arrival, warm_up)
    THEN [lg EXCEPT !.patients = Append(@, rec),
                    !.wait_reg = Append(@, rec.wait_reg),
                    !.wait_sample = Append(@, rec.wait_sample),
                    !.wait_machine = Append(@, rec.wait_machine),
                    !.wait_verify = IF hasVerify THEN Append(@, rec.wait_verify) ELSE @,
                    !.system_time = Append(@, rec.system_time)]
    ELSE [lg EXCEPT !.patients = Append(@, rec)]

\* ------------------------------------------------------------ the run
\* Variant: the verification pool is built whatever use_verify says.
MakeResourcesVerifyAlways(ps) ==
    [r \in PoolNames |->
        NewPool(CASE r = "reg" -> ps.c_reg
                  [] r = "phleb" -> ps.c_phleb
                  [] r = "machine_fast" -> ps.c_fast
                  [] r = "machine_slow" -> ps.c_slow
                  [] r = "verify" -> ps.c_verify)]

\* The pools run_simulation builds; "verify" is None unless use_verify and
\* c_verify > 0.
\* Variant: the verification pool is built whenever use_verify is set,
\* whatever c_verify is.
MakeResourcesAnyCapacity(ps) ==
    [r \in (IF ps.use_verify THEN PoolNames ELSE PoolNames \ {"verify"}) |->
        NewPool(CASE r = "reg" -> ps.c_reg
                  [] r = "phleb" -> ps.c_phleb
                  [] r = "machine_fast" -> ps.c_fast
                  [] r = "machine_slow" -> ps.c_slow
                  [] r = "verify" -> ps.c_verify)]

MakeResources(ps) ==
    [r \in (IF ps.use_verify /\ ps.c_verify > 0
            THEN PoolNames ELSE PoolNames \ {"verify"}) |->
        NewPool(CASE r = "reg" -> ps.c_reg
                  [] r = "phleb" -> ps.c_phleb
                  [] r = "machine_fast" -> ps.c_fast
                  [] r = "machine_slow" -> ps.c_slow
                  [] r = "verify" -> ps.c_verify)]

\* simpy.PriorityResource(env, capacity=c) raises ValueError unless c > 0.
CapacityOk(c) == c > 0

\* The constructors of run_simulation all succeed: the four stage pools, and
\* the verification pool when it is built.
ConstructorsOk(ps) ==
    /\ CapacityOk(ps.c_reg)
    /\ CapacityOk(ps.c_phleb)
    /\ CapacityOk(ps.c_fast)
    /\ CapacityOk(ps.c_slow)
    /\ (ps.use_verify /\ ps.c_verify > 0) => CapacityOk(ps.c_verify)

\* Variant: the clock runs on until the warm-up has been added to the horizon.
StopTimeLate(ps) == ps.sim_time + ps.warm_up

\* env.run(until=params["sim_time"]): the time of the stop event.
StopTime(ps) == ps.sim_time

HasVerify == "verify" \in DOMAIN resources

\* ---------------------------------------------------------- helper stats
\* A natural number of any size: its digits in base BigBase, the lowest
\* first and the highest not 0 (0 has no digit).
BigBase == 2 ^ 14

RECURSIVE Big(_)
Big(n) == IF n = 0 THEN <<>> ELSE <<n % BigBase>> \o Big(n \div BigBase)

RECURSIVE Trim(_)
Trim(a) ==
    IF a = <<>> \/ a[Len(a)] # 0 THEN a ELSE Trim(SubSeq(a, 1, Len(a) - 1))

Low(a) == IF a = <<>> THEN 0 ELSE Head(a)
High(a) == IF a = <<>> THEN <<>> ELSE Tail(a)

\* a + b + carry.
RECURSIVE BigAdd(_, _, _)
BigAdd(a, b, carry) ==
    IF a = <<>> /\ b = <<>> THEN Big(carry)
    ELSE LET d == Low(a) + Low(b) + carry
         IN  <<d % BigBase>> \o BigAdd(High(a), High(b), d \div BigBase)

\* a - b - borrow for a >= b + borrow, before the high zeros are cut.
RECURSIVE BigSubDigits(_, _, _)
BigSubDigits(a, b, borrow) ==
    IF a = <<>> THEN <<>>
    ELSE LET d == Low(a) - Low(b) - borrow
         IN  <<d % BigBase>> \o BigSubDigits(High(a), High(b), IF d < 0 THEN 1 ELSE 0)

BigSub(a, b) == Trim(BigSubDigits(a, b, 0))

\* a < b.
RECURSIVE BigLess(_, _)
BigLess(a, b) ==
    IF Len(a) # Len(b) THEN Len(a) < Len(b)
    ELSE IF a = <<>> THEN FALSE
    ELSE IF a[Len(a)] # b[Len(b)] THEN a[Len(a)] < b[Len(b)]
    ELSE BigLess(SubSeq(a, 1, Len(a) - 1), SubSeq(b, 1, Len(b) - 1))

\* a * d + carry for one digit d.
RECURSIVE BigTimesDigit(_, _, _)
BigTimesDigit(a, d, carry) ==
    IF a = <<>> THEN Big(carry)
    ELSE LET m == Head(a) * d + carry
         IN  <<m % BigBase>> \o BigTimesDigit(Tail(a), d, m \div BigBase)

\* a * b.
RECURSIVE BigMul(_, _)
BigMul(a, b) ==
    IF a = <<>> \/ b = <<>> THEN <<>>
    ELSE BigAdd(Trim(BigTimesDigit(a, Head(b), 0)),
                Trim(<<0>> \o BigMul(a, Tail(b))), 0)

\* The highest digit k in lo..hi with k * b <= r (lo satisfies it).
RECURSIVE QuotientDigit(_, _, _, _)
QuotientDigit(r, b, lo, hi) ==
    IF lo = hi THEN lo
    ELSE LET mid == (lo + hi + 1) \div 2
         IN  IF BigLess(r, Trim(BigTimesDigit(b, mid, 0)))
             THEN QuotientDigit(r, b, lo, mid - 1)
             ELSE QuotientDigit(r, b, mid, hi)

\* Quotient q and remainder r of a by b # 0, a digit of a at a time from
\* the highest.
RECURSIVE BigDivMod(_, _)
BigDivMod(a, b) ==
    IF a = <<>> THEN [q |-> <<>>, r |-> <<>>]
    ELSE LET up == BigDivMod(Tail(a), b)
             r0 == Trim(<<Head(a)>> \o up.r)
             k == QuotientDigit(r0, b, 0, BigBase - 1)
         IN  [q |-> Trim(<<k>> \o up.q),
              r |-> BigSub(r0, Trim(BigTimesDigit(b, k, 0)))]

RECURSIVE BigGCD(_, _)
BigGCD(a, b) == IF b = <<>> THEN a ELSE BigGCD(b, BigDivMod(a, b).r)

\* A number of the reports: float("nan"), or the fraction num / den, negated
\* if neg, in lowest terms with den > 0 (the arithmetic of the reports is
\* exact in the model).
NaN == [nan |-> TRUE, neg |-> FALSE, num |-> <<>>, den |-> <<1>>]

\* The operators below take the value of each operand once (x \in {a}) and
\* work on that value.
\* num / den in lowest terms: both divided by their greatest common divisor.
Frac(neg, num, den) ==
    CHOOSE r \in {[nan |-> FALSE, neg |-> neg /\ n # <<>>,
                   num |-> BigDivMod(n, g).q, den |-> BigDivMod(d, g).q] :
                  g \in {BigGCD(num, den)}, n \in {num}, d \in {den}} : TRUE

\* The fraction n / d of two integers (d # 0).
Rat(n, d) == Frac((n < 0) # (d < 0), Big(Abs(n)), Big(Abs(d)))

\* The comparisons of floats: every comparison with nan is false.
Greater(a, b) ==
    /\ ~a.nan
    /\ ~b.nan
    /\ IF a.neg # b.neg THEN b.neg
       ELSE IF a.neg THEN BigLess(BigMul(a.num, b.den), BigMul(b.num, a.den))
       ELSE BigLess(BigMul(b.num, a.den), BigMul(a.num, b.den))

RatEq(a, b) ==
    \E x \in {a}, y \in {b} :
        ~x.nan /\ ~y.nan /\ x.neg = y.neg /\ x.num = y.num /\ x.den = y.den
RatGt(a, b) == \E x \in {a}, y \in {b} : Greater(x, y)
RatLeq(a, b) == \E x \in {a}, y \in {b} : ~x.nan /\ ~y.nan /\ ~Greater(x, y)

\* a + b: nan if either is.
Sum(a, b) ==
    IF a.nan \/ b.nan THEN NaN
    ELSE IF a.neg = b.neg
    THEN Frac(a.neg, BigAdd(BigMul(a.num, b.den), BigMul(b.num, a.den), 0),
              BigMul(a.den, b.den))
    ELSE IF BigLess(BigMul(a.num, b.den), BigMul(b.num, a.den))
    THEN Frac(b.neg, BigSub(BigMul(b.num, a.den), BigMul(a.num, b.den)),
              BigMul(a.den, b.den))
    ELSE Frac(a.neg, BigSub(BigMul(a.num, b.den), BigMul(b.num, a.den)),
              BigMul(a.den, b.den))

RatAdd(a, b) == CHOOSE r \in {Sum(x, y) : x \in {a}, y \in {b}} : TRUE

\* a * b and a / b (b # 0).
Product(a, b) ==
    IF a.nan \/ b.nan THEN NaN
    ELSE Frac(a.neg # b.neg, BigMul(a.num, b.num), BigMul(a.den, b.den))

RatMul(a, b) == CHOOSE r \in {Product(x, y) : x \in {a}, y \in {b}} : TRUE

Quotient(a, b) ==
    IF a.nan \/ b.nan THEN NaN
    ELSE Frac(a.neg # b.neg, BigMul(a.num, b.den), BigMul(a.den, b.num))

RatDiv(a, b) == CHOOSE r \in {Quotient(x, y) : x \in {a}, y \in {b}} : TRUE

\* The sum of the numbers of xs.
RECURSIVE SumSeq(_)
SumSeq(xs) ==
    IF xs = <<>> THEN Rat(0, 1) ELSE RatAdd(Rat(Head(xs), 1), SumSeq(Tail(xs)))

\* Variant: the mean of no numbers is reported as 0.
safe_meanZero(xs) ==
    IF xs = <<>> THEN Rat(0, 1) ELSE RatDiv(SumSeq(xs), Rat(Len(xs), 1))

\* safe_mean: stats.mean(xs) if xs else nan.
safe_mean(xs) == IF xs = <<>> THEN NaN ELSE RatDiv(SumSeq(xs), Rat(Len(xs), 1))

\* x put at its place in the ascending sequence srt.
InsertSorted(x, srt) ==
    LET k == Cardinality({i \in 1..Len(srt) : srt[i] <= x})
    IN  SubSeq(srt, 1, k) \o <<x>> \o SubSeq(srt, k + 1, Len(srt))

\* Variant: the sequence is used in the order of the log.
sortedNot(xs) == xs

\* sorted(xs), ascending.
RECURSIVE sorted(_)
sorted(xs) ==
    IF xs = <<>> THEN <<>>
    ELSE InsertSorted(xs[Len(xs)], sorted(SubSeq(xs, 1, Len(xs) - 1)))

\* Variant: the element at rank int(k), without interpolation.
percentileNearest(xs, p) ==
    IF xs = <<>> THEN NaN
    ELSE Rat(sorted(xs)[(((Len(xs) - 1) * p) \div 100) + 1], 1)

\* percentile(xs, p) for p in 0..100: k = (n - 1) * p / 100 is kept in
\* hundredths, f = int(k), c = min(f + 1, n - 1); indices are 0-based in the
\* source and 1-based here.
percentile(xs, p) ==
    IF xs = <<>> THEN NaN
    ELSE LET xs_sorted == sorted(xs)
             k100 == (Len(xs_sorted) - 1) * p
             f == k100 \div 100
             c == IF f + 1 < Len(xs_sorted) - 1 THEN f + 1 ELSE Len(xs_sorted) - 1
         IN  IF f = c THEN Rat(xs_sorted[f + 1], 1)
             ELSE RatAdd(Rat(xs_sorted[f + 1], 1),
                         RatMul(Rat(k100 - 100 * f, 100),
                                Rat(xs_sorted[c + 1] - xs_sorted[f + 1], 1)))

\* summarize(log); the keys are "Total pasien (termasuk warm-up)", "Pasien
\* dihitung (setelah warm-up)", "Mean wait registrasi", "Mean wait sampel",
\* "Mean wait mesin", "Mean total time in system", "P95 total time in
\* system" and "Komposisi".
summarize(lg) ==
    [total |-> Len(lg.patients),
     counted |-> Len(lg.system_time),
     mean_wait_reg |-> safe_mean(lg.wait_reg),
     mean_wait_sample |-> safe_mean(lg.wait_sample),
     mean_wait_machine |-> safe_mean(lg.wait_machine),
     mean_system_time |-> safe_mean(lg.system_time),
     p95_system_time |-> percentile(lg.system_time, 95),
     counts |-> lg.counts]

\* The keys of the stages dict of analyze_bottleneck, in insertion order.
StageNames == <<"Registrasi", "Pengambilan Sampel", "Mesin Tes", "Verifikasi">>

\* max(stages, key=stages.get): the first key is kept until a later one
\* compares greater.
RECURSIVE MaxByKey(_, _, _)
MaxByKey(names, best, val) ==
    IF names = <<>> THEN best
    ELSE MaxByKey(Tail(names),
                  IF RatGt(val[Head(names)], val[best]) THEN Head(names) ELSE best,
                  val)

\* Variant: the first stage is reported whatever the waits.
MaxStageFirst(val) == {Head(StageNames)}

\* Variant: the stage of the lowest wait is reported.
MaxStageLowest(val) ==
    {CHOOSE nm \in DOMAIN val : \A other \in DOMAIN val : ~RatGt(val[nm], val[other])}

\* The stages max(stages, key=stages.get) can name.  The values compared are
\* doubles, each the rounding of the mean of the doubles of a list, so means
\* that are equal here can differ there in the last place, either way: any
\* stage whose mean equals the greatest one can be the one named.  A mean of
\* 0 is exact (every wait of the list is 0.0) and nan compares false, so
\* there the first key is kept.
MaxStage(val) ==
    LET first == MaxByKey(Tail(StageNames), Head(StageNames), val)
    IN  {nm \in DOMAIN val :
            \/ nm = first
            \/ RatGt(val[first], Rat(0, 1)) /\ RatEq(val[nm], val[first])}

\* analyze_bottleneck(summary, log): the results it can return, one for each
\* stage max can name.
analyze_bottleneck(summary, lg) ==
    LET stages ==
            [nm \in {StageNames[i] : i \in 1..Len(StageNames)} |->
                CASE nm = "Registrasi" -> summary.mean_wait_reg
                  [] nm = "Pengambilan Sampel" -> summary.mean_wait_sample
                  [] nm = "Mesin Tes" -> summary.mean_wait_machine
                  [] nm = "Verifikasi" ->
                       IF lg.wait_verify # <<>> THEN safe_mean(lg.wait_verify)
                       ELSE Rat(0, 1)]
        total_wait ==
            RatAdd(RatAdd(RatAdd(RatAdd(Rat(0, 1), stages[StageNames[1]]),
                                 stages[StageNames[2]]),
                          stages[StageNames[3]]),
                   stages[StageNames[4]])
    IN  { [bottleneck |-> bottleneck, wait_time |-> stages[bottleneck],
           severity |-> IF RatGt(total_wait, Rat(0, 1))
                        THEN RatMul(RatDiv(stages[bottleneck], total_wait),
                                    Rat(100, 1))
                        ELSE Rat(0, 1),
           all_stages |-> stages] : bottleneck \in MaxStage(stages) }

\* min(util, 100).
Cap100(util) == IF RatGt(util, Rat(100, 1)) THEN Rat(100, 1) ELSE util

\* The patients a pool is taken to have served, and the service time each
\* is taken to have had there: the number of records and the mode of the
\* stage (0 for verification when it is disabled); for the machines the
\* composition counters.
UtilPatients(lg, r) ==
    CASE r = "machine_fast" -> lg.counts.fast
      [] r = "machine_slow" -> lg.counts.slow
      [] OTHER -> Len(lg.patients)

UtilService(ps, r) ==
    CASE r = "reg" -> ps.service_time.registration[2]
      [] r = "phleb" -> ps.service_time.sampling[2]
      [] r = "machine_fast" -> ps.service_time.test_fast[2]
      [] r = "machine_slow" -> ps.service_time.test_slow[2]
      [] r = "verify" -> IF ps.use_verify THEN ps.service_time.verification[2] ELSE 0

UtilCapacity(ps, r) ==
    CASE r = "reg" -> ps.c_reg
      [] r = "phleb" -> ps.c_phleb
      [] r = "machine_fast" -> ps.c_fast
      [] r = "machine_slow" -> ps.c_slow
      [] r = "verify" -> ps.c_verify

\* The divisions calculate_utilization makes: one per stage pool, and the
\* one of verification only when use_verify is set.
UtilDivides(ps, r) == r # "verify" \/ ps.use_verify

\* Variant: a log without records is reported as 0 for every pool.
calculate_utilizationZeros(lg, ps) ==
    IF lg.patients = <<>>
    THEN [error |-> "none", values |-> [r \in PoolNames |-> Rat(0, 1)]]
    ELSE IF \E r \in PoolNames :
                UtilDivides(ps, r) /\ (UtilCapacity(ps, r) = 0 \/ ps.sim_time = 0)
         THEN [error |-> "ZeroDivisionError", values |-> [r \in {} |-> NaN]]
         ELSE [error |-> "none",
               values |->
                 [r \in PoolNames |->
                    IF UtilDivides(ps, r)
                    THEN Cap100(RatMul(RatDiv(RatMul(Rat(UtilPatients(lg, r), 1),
                                                     Rat(UtilService(ps, r), 1)),
                                              RatMul(Rat(UtilCapacity(ps, r), 1),
                                                     Rat(ps.sim_time, 1))),
                                       Rat(100, 1)))
                    ELSE Rat(0, 1)]]

\* calculate_utilization(log, params): the empty dict for a log without
\* records; ZeroDivisionError when a divisor capacity * sim_time is 0; else
\* the five capped percentages (keys "Registrasi", "Pengambilan Sampel",
\* "Mesin Tes Cepat", "Mesin Tes Lama", "Verifikasi", named here by pool).
calculate_utilization(lg, ps) ==
    IF lg.patients = <<>>
    THEN [error |-> "none", values |-> [r \in {} |-> NaN]]
    ELSE IF \E r \in PoolNames :
                UtilDivides(ps, r) /\ (UtilCapacity(ps, r) = 0 \/ ps.sim_time = 0)
         THEN [error |-> "ZeroDivisionError", values |-> [r \in {} |-> NaN]]
         ELSE [error |-> "none",
               values |->
                 [r \in PoolNames |->
                    IF UtilDivides(ps, r)
                    THEN Cap100(RatMul(RatDiv(RatMul(Rat(UtilPatients(lg, r), 1),
                                                     Rat(UtilService(ps, r), 1)),
                                              RatMul(Rat(UtilCapacity(ps, r), 1),
                                                     Rat(ps.sim_time, 1))),
                                       Rat(100, 1)))
                    ELSE Rat(0, 1)]]

\* No report has been made; no call of percentile is under way.
NoReport ==
    [made |-> {}, summary |-> summarize(make_log),
     bottleneck |-> CHOOSE b \in analyze_bottleneck(summarize(make_log), make_log) : TRUE,
     utilization |-> calculate_utilization(make_log, BaseParams)]
NoCall == [xs |-> <<>>, p |-> 0, called |-> FALSE, result |-> NaN]

NoPatients == [p \in {} |-> NewPatient(0, "fast")]
NoResources == [r \in {} |-> NewPool(0)]

\* Before run_simulation is called with the parameters and the seed, and
\* before percentile is called with the arguments of pcall.
IdleWith(configs, seeds, pcalls) ==
    /\ params \in configs
    /\ seed \in seeds
    /\ rngIdx = 0
    /\ now = 0
    /\ evq = <<>>
    /\ eid = 0
    /\ resources = NoResources
    /\ pat = NoPatients
    /\ nextPid = 0
    /\ log = make_log
    /\ status = "idle"
    /\ reqSeq = 0
    /\ calls = 1
    /\ returned = {}
    /\ report = NoReport
    /\ pcall \in pcalls

InitOf(configs, seeds) == IdleWith(configs, seeds, {NoCall})

Init == InitOf(Configs, Seeds)

\* run_simulation up to the call of env.run: seed the stream, build the
\* environment, the pools and the log, start the arrival generator
\* (Initialize, URGENT) and schedule the stop event (URGENT).
RunSimulation ==
    /\ status = "idle"
    /\ ConstructorsOk(params)
    /\ rngIdx' = 0
    /\ now' = 0
    /\ eid' = 2
    /\ evq' = ScheduleAll(<<>>,
                 <<Event(0, URGENT, 0, "init_arrivals", NoPid, NoRes),
                   Event(StopTime(params), URGENT, 1, "until", NoPid, NoRes)>>)
    /\ resources' = MakeResources(params)
    /\ pat' = NoPatients
    /\ nextPid' = 0
    /\ log' = FreshLog(log)
    /\ reqSeq' = 0
    /\ status' = "running"
    /\ UNCHANGED <<report, pcall>>
    /\ UNCHANGED <<params, seed, calls, returned>>

Running == status = "running" /\ evq # <<>>

\* Variant: the else of the priority test is missing, the normal counter
\* counts every arrival.
CountArrivalNoElse(counts, priority, test_type) ==
    [priority |-> IF priority = 0 THEN counts.priority + 1 ELSE counts.priority,
     normal |-> counts.normal + 1,
     fast |-> IF test_type = "fast" THEN counts.fast + 1 ELSE counts.fast,
     slow |-> IF test_type = "fast" THEN counts.slow ELSE counts.slow + 1]

\* The composition counters after an arrival of the given class and test.
CountArrival(counts, priority, test_type) ==
    [priority |-> IF priority = 0 THEN counts.priority + 1 ELSE counts.priority,
     normal |-> IF priority = 0 THEN counts.normal ELSE counts.normal + 1,
     fast |-> IF test_type = "fast" THEN counts.fast + 1 ELSE counts.fast,
     slow |-> IF test_type = "fast" THEN counts.slow ELSE counts.slow + 1]

\* Variant: the increment of pid is missing.
PidAfterSame(pid) == pid

\* pid += 1 after a patient has been spawned.
PidAfter(pid) == pid + 1

\* What sample_interarrival and env.timeout raise at the end of a turn of
\* the arrival loop: 1.0 / mean divides by zero for a mean of 0; a negative
\* mean gives a negative gap, which env.timeout rejects.
ArrivalFailure(mean) ==
    IF mean = 0 THEN "ZeroDivisionError"
    ELSE IF mean < 0 THEN "ValueError"
    ELSE "none"

\* The arrival generator runs one turn of its loop: draw the priority and
\* the test type, count them, spawn the patient process (Initialize,
\* URGENT), draw the gap and suspend on its timeout.  When the gap cannot be
\* drawn or waited for, the exception ends the generator: its process event
\* is scheduled as failed (NORMAL), behind the Initialize of the patient
\* just spawned.
ArrivalsStep ==
    /\ Running
    /\ Head(evq).kind \in {"init_arrivals", "arrival_timeout"}
    /\ LET e == Head(evq)
           priority == sample_priority(params.p_priority, Random(seed, rngIdx))
           test_type == sample_test_type(params.p_fast, Random(seed, rngIdx + 1))
           iat == sample_interarrival(params.mean_interarrival,
                                      Random(seed, rngIdx + 2))
           failure == ArrivalFailure(params.mean_interarrival)
       IN  /\ now' = e.t
           /\ log' = [log EXCEPT
                  !.counts = CountArrival(@, priority, test_type)]
           /\ pat' = (nextPid :> NewPatient(priority, test_type)) @@ pat
           /\ nextPid' = PidAfter(nextPid)
           /\ rngIdx' = IF failure = "ZeroDivisionError"
                        THEN rngIdx + 2 ELSE rngIdx + 3
           /\ evq' = ScheduleAll(Tail(evq),
                        <<Event(e.t, URGENT, eid, "init_patient", nextPid, NoRes),
                          IF failure = "none"
                          THEN Event(e.t + iat, NORMAL, eid + 1, "arrival_timeout",
                                     NoPid, NoRes)
                          ELSE Event(e.t, NORMAL, eid + 1, "process_failed",
                                     NoPid, NoRes)>>)
           /\ eid' = eid + 2
    /\ UNCHANGED <<report, pcall>>
    /\ UNCHANGED <<params, seed, resources, status, reqSeq, calls, returned>>

\* Variant: a granted request is never triggered, its process is not woken.
GrantEventsNone(granted, t, id, res) == <<>>

\* The events of the requests granted by a _trigger_put (Event.succeed).
GrantEvents(granted, t, id, res) ==
    [i \in 1..Len(granted) |-> Event(t, NORMAL, id + i - 1, "request", granted[i], res)]

\* usage_since of the granted requests.
MarkGranted(ps, granted, res, t) ==
    [p \in DOMAIN ps |->
        IF \E i \in 1..Len(granted) : granted[i] = p
        THEN [ps[p] EXCEPT !.usage_since[res] = t]
        ELSE ps[p]]

\* Initialize of a patient process: the generator runs to its first yield,
\* the request for registration.
PatientStart ==
    /\ Running
    /\ Head(evq).kind = "init_patient"
    /\ LET e == Head(evq)
           p == e.pid
           rq == Request(resources["reg"], p, RequestPriority(pat[p]), e.t, reqSeq)
       IN  /\ now' = e.t
           /\ resources' = [resources EXCEPT !["reg"] = rq.pool]
           /\ pat' = MarkGranted(
                       [pat EXCEPT ![p].pc = "QUEUED_REG",
                                   ![p].arrival_time = e.t,
                                   ![p].q_start = QStart(e.t, @),
                                   ![p].req_time["reg"] = e.t],
                       rq.granted, "reg", e.t)
           /\ evq' = ScheduleAll(Tail(evq), GrantEvents(rq.granted, e.t, eid, "reg"))
           /\ eid' = eid + Len(rq.granted)
           /\ reqSeq' = reqSeq + 1
    /\ UNCHANGED <<report, pcall>>
    /\ UNCHANGED <<params, seed, rngIdx, nextPid, log, status, calls, returned>>


\* The stage a granted request opens, and the service-time entry drawn there
\* (the test service was drawn before the request).
StageIn(pc) ==
    CASE pc = "QUEUED_REG" -> "IN_REG"
      [] pc = "QUEUED_SAMPLE" -> "IN_SAMPLE"
      [] pc = "QUEUED_TEST" -> "IN_TEST"
      [] pc = "QUEUED_VERIFY" -> "IN_VERIFY"

\* A request event is processed: the patient resumes after `yield req`,
\* records its wait, draws the service duration (registration, sampling,
\* verification) and suspends on the service timeout.
RequestGranted ==
    /\ Running
    /\ Head(evq).kind = "request"
    /\ \E u \in {Random(seed, rngIdx)} :
         LET e == Head(evq)
             p == e.pid
             pc == pat[p].pc
             w == WaitSince(e.t, pat[p].q_start)
             st == params.service_time
         IN  \E service \in
                   { IF DrawnOnEntry(pc) THEN pat[p].service_test
                     ELSE CASE pc = "QUEUED_REG" -> get_service_time(st, "registration", u)
                            [] pc = "QUEUED_SAMPLE" -> get_service_time(st, "sampling", u)
                            [] pc = "QUEUED_TEST" ->
                                 get_service_time(st, TestService(pat[p].test_type), u)
                            [] pc = "QUEUED_VERIFY" ->
                                 get_service_time(st, "verification", u) } :
                /\ now' = e.t
                /\ pat' = [pat EXCEPT
                       ![p].pc = StageIn(pc),
                       ![p].wait_reg = IF pc = "QUEUED_REG" THEN w ELSE @,
                       ![p].wait_sample = IF pc = "QUEUED_SAMPLE" THEN w ELSE @,
                       ![p].wait_machine = IF pc = "QUEUED_TEST" THEN w ELSE @,
                       ![p].wait_verify = IF pc = "QUEUED_VERIFY" THEN w ELSE @,
                       ![p].service_reg = IF pc = "QUEUED_REG" THEN service ELSE @,
                       ![p].service_sample = IF pc = "QUEUED_SAMPLE" THEN service ELSE @,
                       ![p].service_test = IF pc = "QUEUED_TEST" THEN service ELSE @,
                       ![p].draw_idx[e.res] = IF DrawnOnEntry(pc) THEN @ ELSE rngIdx,
                       ![p].service_verify = IF pc = "QUEUED_VERIFY" THEN service ELSE @]
                /\ rngIdx' = IF DrawnOnEntry(pc) THEN rngIdx ELSE rngIdx + 1
                /\ evq' = Schedule(Tail(evq),
                             Event(e.t + service, NORMAL, eid, "service_timeout", p, e.res))
                /\ eid' = eid + 1
    /\ UNCHANGED <<report, pcall>>
    /\ UNCHANGED <<params, seed, resources, nextPid, log, status, reqSeq,
                   calls, returned>>

\* Variant: the release takes effect one minute after the service ended.
ReleaseEventLate(t, id, res) == Event(t + Minutes(1), NORMAL, id, "release", NoPid, res)

\* The event of resource.release(request): Release succeeds at once, so it
\* is scheduled for the current instant, NORMAL.
ReleaseEventOf(t, id, res) == Event(t, NORMAL, id, "release", NoPid, res)

\* A service timeout fires: the patient leaves the with block (release),
\* then either queues for the next stage (drawing the test service first
\* when that stage is the test) or writes its record and ends.
ServiceDone ==
    /\ Running
    /\ Head(evq).kind = "service_timeout"
    /\ LET e == Head(evq)
           p == e.pid
           pc == pat[p].pc
           nxt == AfterService(pc, HasVerify)
           freed == [resources EXCEPT ![e.res] = Release(@, p)]
           relEv == ReleaseEventOf(e.t, eid, e.res)
           \* line 122: wait_verify = 0.0 after the test stage
           p0 == IF pc = "IN_TEST" THEN [pat[p] EXCEPT !.wait_verify = 0] ELSE pat[p]
       IN  /\ now' = e.t
           /\ IF nxt = "DONE"
              THEN /\ resources' = freed
                   /\ pat' = [pat EXCEPT ![p] = [p0 EXCEPT !.pc = "DONE",
                                                           !.finish_time = e.t]]
                   /\ log' = AppendRecord(log, Record(p, p0, e.t),
                                          params.warm_up, HasVerify)
                   /\ evq' = ScheduleAll(Tail(evq),
                                <<relEv,
                                  Event(e.t, NORMAL, eid + 1, "process_end", p, NoRes)>>)
                   /\ eid' = eid + 2
                   /\ UNCHANGED <<rngIdx, reqSeq>>
              ELSE LET nr == PoolOf(nxt, p0.test_type)
                       rq == Request(freed[nr], p, RequestPriority(p0), e.t, reqSeq)
                       p1 == [p0 EXCEPT
                                !.pc = nxt,
                                !.q_start = QStart(e.t, @),
                                !.service_test =
                                    IF DrawnOnEntry(nxt)
                                    THEN get_service_time(params.service_time,
                                             TestService(p0.test_type),
                                             Random(seed, rngIdx))
                                    ELSE @,
                                !.draw_idx[nr] =
                                    IF DrawnOnEntry(nxt) THEN rngIdx ELSE @,
                                !.req_time[nr] = e.t]
                   IN  /\ resources' = [freed EXCEPT ![nr] = rq.pool]
                       /\ pat' = MarkGranted([pat EXCEPT ![p] = p1],
                                             rq.granted, nr, e.t)
                       /\ rngIdx' = IF DrawnOnEntry(nxt) THEN rngIdx + 1 ELSE rngIdx
                       /\ evq' = ScheduleAll(Tail(evq),
                                    <<relEv>> \o GrantEvents(rq.granted, e.t, eid + 1, nr))
                       /\ eid' = eid + 1 + Len(rq.granted)
                       /\ reqSeq' = reqSeq + 1
                       /\ UNCHANGED log
    /\ UNCHANGED <<report, pcall>>
    /\ UNCHANGED <<params, seed, nextPid, status, calls, returned>>

\* A release event is processed: its callback _trigger_put grants the freed
\* slot to the head of the put queue.
ReleaseEvent ==
    /\ Running
    /\ Head(evq).kind = "release"
    /\ LET e == Head(evq)
           tp == TriggerPut(resources[e.res], e.t)
       IN  /\ now' = e.t
           /\ resources' = [resources EXCEPT ![e.res] = tp.pool]
           /\ pat' = MarkGranted(pat, tp.granted, e.res, e.t)
           /\ evq' = ScheduleAll(Tail(evq), GrantEvents(tp.granted, e.t, eid, e.res))
           /\ eid' = eid + Len(tp.granted)
    /\ UNCHANGED <<report, pcall>>
    /\ UNCHANGED <<params, seed, rngIdx, nextPid, log, status, reqSeq, calls, returned>>

\* The event of a finished patient process: nothing waits for it.
ProcessEnd ==
    /\ Running
    /\ Head(evq).kind = "process_end"
    /\ now' = Head(evq).t
    /\ evq' = Tail(evq)
    /\ UNCHANGED <<report, pcall>>
    /\ UNCHANGED <<params, seed, rngIdx, eid, resources, pat, nextPid, log,
                   status, reqSeq, calls, returned>>

\* The stop event of env.run(until=...): StopSimulation, and run_simulation
\* returns the log.
Until ==
    /\ Running
    /\ Head(evq).kind = "until"
    /\ now' = Head(evq).t
    /\ evq' = Tail(evq)
    /\ status' = "stopped"
    /\ returned' = returned \cup
                     {[call |-> calls, params |-> params, seed |-> seed, log |-> log]}
    /\ UNCHANGED <<report, pcall>>
    /\ UNCHANGED <<params, seed, rngIdx, eid, resources, pat, nextPid, log,
                   reqSeq, calls>>

Next ==
    \/ RunSimulation
    \/ ArrivalsStep
    \/ PatientStart
    \/ RequestGranted
    \/ ServiceDone
    \/ ReleaseEvent
    \/ ProcessEnd
    \/ Until

Spec == Init /\ [][Next]_vars


\* ------------------------------------------------ repeated invocations
\* The caller invokes run_simulation again once a run has returned; what the
\* earlier run left behind is still there when the next call starts.
RerunConfigs ==
    { [BaseParams EXCEPT !.mean_interarrival = Minutes(2), !.sim_time = Minutes(12),
                         !.warm_up = w, !.service_time = ShortServiceTime] :
        w \in {Minutes(0), Minutes(1)} }

RerunSeeds == {5, 22}

InitRerun == InitOf(RerunConfigs, RerunSeeds)

CallAgain ==
    /\ status = "stopped"
    /\ calls < MaxCalls
    /\ params' \in RerunConfigs
    /\ seed' \in RerunSeeds
    /\ calls' = calls + 1
    /\ status' = "idle"
    /\ UNCHANGED <<report, pcall>>
    /\ UNCHANGED <<rngIdx, now, evq, eid, resources, pat, nextPid, log, reqSeq,
                   returned>>

NextRerun == Next \/ CallAgain

SpecRerun == InitRerun /\ [][NextRerun]_vars

\* ------------------------------------------------ invalid parameters
\* run_simulation is called with parameters the interface would not pass:
\* capacities and mean inter-arrival times that are zero or negative.
ShortParams ==
    [BaseParams EXCEPT !.mean_interarrival = Minutes(2), !.sim_time = Minutes(12),
                       !.warm_up = Minutes(2), !.service_time = ShortServiceTime]

BadCapacityCases ==
    { [ShortParams EXCEPT !.c_reg = 0],
      [ShortParams EXCEPT !.c_phleb = 0],
      [ShortParams EXCEPT !.c_fast = 0 - 1],
      [ShortParams EXCEPT !.c_slow = 0],
      [ShortParams EXCEPT !.c_reg = 0, !.c_verify = 0],
      [ShortParams EXCEPT !.c_verify = 0],
      [ShortParams EXCEPT !.c_verify = 0 - 1],
      [ShortParams EXCEPT !.c_verify = 0, !.use_verify = FALSE] }

BadMeanCases ==
    { [ShortParams EXCEPT !.mean_interarrival = 0],
      [ShortParams EXCEPT !.mean_interarrival = Minutes(0 - 2)],
      [ShortParams EXCEPT !.mean_interarrival = 0, !.c_reg = 0] }

\* Probabilities below 0 and above 1.
BadProbabilityCases ==
    { [ShortParams EXCEPT !.p_priority = Percent(125)],
      [ShortParams EXCEPT !.p_priority = Percent(0 - 25)],
      [ShortParams EXCEPT !.p_fast = Percent(150)],
      [ShortParams EXCEPT !.p_fast = Percent(0 - 50)] }

\* Probabilities of exactly 0 and exactly 1.
BoundaryCases ==
    { [ShortParams EXCEPT !.p_priority = Percent(0), !.p_fast = Percent(100)],
      [ShortParams EXCEPT !.p_priority = Percent(0)],
      [ShortParams EXCEPT !.p_fast = Percent(100)],
      [ShortParams EXCEPT !.p_fast = Percent(0)],
      [ShortParams EXCEPT !.p_priority = Percent(100), !.p_fast = Percent(0)] }

ConfigCases ==
    {ShortParams, BaseParams} \cup BadCapacityCases \cup BadMeanCases
        \cup BadProbabilityCases \cup BoundaryCases

InitConfig == InitOf(ConfigCases, Seeds)

\* run_simulation when a constructor raises: the stream has been seeded, the
\* exception leaves run_simulation before the log is made and before any
\* process is started.
RunSimulationFails ==
    /\ status = "idle"
    /\ ~ConstructorsOk(params)
    /\ rngIdx' = 0
    /\ status' = "error"
    /\ UNCHANGED <<report, pcall>>
    /\ UNCHANGED <<params, seed, now, evq, eid, resources, pat, nextPid, log,
                   reqSeq, calls, returned>>

\* env.run reaches the event of a process that ended with an exception:
\* nothing waits for it, so step raises the exception out of env.run and
\* out of run_simulation, which returns nothing.
RunFails ==
    /\ Running
    /\ Head(evq).kind = "process_failed"
    /\ now' = Head(evq).t
    /\ evq' = Tail(evq)
    /\ status' = "error"
    /\ UNCHANGED <<report, pcall>>
    /\ UNCHANGED <<params, seed, rngIdx, eid, resources, pat, nextPid, log,
                   reqSeq, calls, returned>>

NextConfig == Next \/ RunSimulationFails \/ RunFails

SpecConfig == InitConfig /\ [][NextConfig]_vars

\* ------------------------------------------------ the reports of a run
\* The script reports on the log run_simulation gave back: summarize, the
\* table of the records, then analyze_bottleneck and calculate_utilization.
ReportConfigs ==
    { ShortParams,
      BaseParams,
      [ShortParams EXCEPT !.use_verify = FALSE],
      [ShortParams EXCEPT !.c_reg = 2, !.c_phleb = 2, !.mean_interarrival = Minutes(5)],
      [ShortParams EXCEPT !.warm_up = Minutes(12)],
      [BaseParams EXCEPT !.mean_interarrival = Minutes(2), !.service_time = ShortServiceTime],
      [ShortParams EXCEPT !.c_verify = 0],
      [BaseParams EXCEPT !.sim_time = Minutes(12), !.c_verify = 0] }

InitReport == InitOf(ReportConfigs, Seeds)

Summarize ==
    /\ status = "stopped"
    /\ report' = [report EXCEPT !.made = @ \cup {"summary"},
                                !.summary = summarize(log)]
    /\ status' = "summarized"
    /\ UNCHANGED <<params, seed, rngIdx, now, evq, eid, resources, pat, nextPid,
                   log, reqSeq, calls, returned, pcall>>

\* The table of the records, between summarize and the analyses:
\* pd.DataFrame(log["patients"]).sort_values(by="pid") raises KeyError for a
\* log without records (the frame has no column), and the script ends there.
SortValuesFails ==
    /\ status = "summarized"
    /\ log.patients = <<>>
    /\ status' = "error"
    /\ UNCHANGED <<report, pcall>>
    /\ UNCHANGED <<params, seed, rngIdx, now, evq, eid, resources, pat, nextPid,
                   log, reqSeq, calls, returned>>

\* analyze_bottleneck is called once the table has been made.
AnalyzeBottleneck ==
    /\ status = "summarized"
    /\ log.patients # <<>>
    /\ \E result \in analyze_bottleneck(report.summary, log) :
          report' = [report EXCEPT !.made = @ \cup {"bottleneck"},
                                   !.bottleneck = result]
    /\ status' = "analyzed"
    /\ UNCHANGED <<params, seed, rngIdx, now, evq, eid, resources, pat, nextPid,
                   log, reqSeq, calls, returned, pcall>>

\* calculate_utilization returns, or its exception leaves the caller.
CalculateUtilization ==
    /\ status = "analyzed"
    /\ LET utilization == calculate_utilization(log, params)
       IN  IF utilization.error = "none"
           THEN /\ report' = [report EXCEPT !.made = @ \cup {"utilization"},
                                            !.utilization = utilization]
                /\ status' = "reported"
           ELSE /\ report' = report
                /\ status' = "error"
    /\ UNCHANGED <<params, seed, rngIdx, now, evq, eid, resources, pat, nextPid,
                   log, reqSeq, calls, returned, pcall>>

NextReport ==
    Next \/ Summarize \/ SortValuesFails \/ AnalyzeBottleneck \/ CalculateUtilization

SpecReport == InitReport /\ [][NextReport]_vars

\* ----------------------------------- calculate_utilization on its own
\* calculate_utilization is called with a log and the parameters of its run:
\* runs of twelve minutes under the short services, in which `arrived`
\* patients came, the first `fast` of them for the fast test and the first
\* `expedited` of them expedited, and the first `finished` of them left
\* before the horizon.
UtilizationConfigs ==
    { [ShortParams EXCEPT !.warm_up = Minutes(0), !.use_verify = v,
                          !.c_verify = cv, !.c_reg = c, !.c_phleb = c] :
        v \in BOOLEAN, cv \in {0, 1}, c \in {1, 2} }

\* The record of patient pid, who did not wait and left after eight minutes.
FinishedRecord(pid, fast, expedited) ==
    [pid |-> pid, arrival |-> Minutes(pid), finish |-> Minutes(pid + 8),
     priority |-> IF pid < expedited THEN 0 ELSE 1,
     test_type |-> IF pid < fast THEN "fast" ELSE "slow",
     wait_reg |-> 0, wait_sample |-> 0, wait_machine |-> 0, wait_verify |-> 0,
     system_time |-> Minutes(8)]

RECURSIVE LogOf(_, _, _, _, _)
LogOf(arrived, fast, expedited, finished, ps) ==
    IF finished = 0
    THEN [make_log EXCEPT !.counts =
              [priority |-> expedited, normal |-> arrived - expedited,
               fast |-> fast, slow |-> arrived - fast]]
    ELSE AppendRecord(LogOf(arrived, fast, expedited, finished - 1, ps),
                      FinishedRecord(finished - 1, fast, expedited),
                      ps.warm_up, ps.use_verify /\ ps.c_verify > 0)

MaxArrived == 2

InitUtilization ==
    /\ params \in UtilizationConfigs
    /\ \E c \in [arrived : 1..MaxArrived, fast : 0..MaxArrived,
                  expedited : 0..MaxArrived, finished : 0..MaxArrived] :
          /\ c.fast <= c.arrived /\ c.expedited <= c.arrived
          /\ c.finished <= c.arrived
          /\ log = LogOf(c.arrived, c.fast, c.expedited, c.finished, params)
    /\ seed = 0
    /\ rngIdx = 0
    /\ now = 0
    /\ evq = <<>>
    /\ eid = 0
    /\ resources = NoResources
    /\ pat = NoPatients
    /\ nextPid = 0
    /\ status = "given"
    /\ reqSeq = 0
    /\ calls = 1
    /\ returned = {}
    /\ report = NoReport
    /\ pcall = NoCall

\* calculate_utilization(log, params) returns, or raises.
UtilizationCall ==
    /\ status = "given"
    /\ LET utilization == calculate_utilization(log, params)
       IN  IF utilization.error = "none"
           THEN /\ report' = [report EXCEPT !.made = @ \cup {"utilization"},
                                            !.utilization = utilization]
                /\ status' = "reported"
           ELSE /\ report' = report
                /\ status' = "error"
    /\ UNCHANGED <<params, seed, rngIdx, now, evq, eid, resources, pat, nextPid,
                   log, reqSeq, calls, returned, pcall>>

SpecUtilization == InitUtilization /\ [][UtilizationCall]_vars

\* ------------------------------------------------ percentile on its own
\* percentile is called with a sequence of at most MaxXs numbers and a
\* percentage.
Percentages == {0, 10, 25, 50, 75, 95, 100}

PercentileCalls ==
    { [xs |-> x, p |-> q, called |-> FALSE, result |-> NaN] :
        x \in UNION {[1..n -> {0, 2, 3, 7}] : n \in 0..MaxXs}, q \in Percentages }

InitPercentile == IdleWith({BaseParams}, {0}, PercentileCalls)

PercentileCall ==
    /\ ~pcall.called
    /\ pcall' = [pcall EXCEPT !.called = TRUE,
                              !.result = percentile(pcall.xs, pcall.p)]
    /\ UNCHANGED <<params, seed, rngIdx, now, evq, eid, resources, pat, nextPid,
                   log, status, reqSeq, calls, returned, report>>

SpecPercentile == InitPercentile /\ [][PercentileCall]_vars

\* --------------------------------------- the patient network on its own
\* patient is called directly: on the pools run_simulation builds for the
\* parameters, with a fresh log and the stream seeded, a patient process is
\* started at time 0 for each of MaxPatients patients, of any priority class
\* and test type, and the environment is stepped as long as an event is
\* scheduled.  No arrival generator and no stop event take part.
NetworkConfigs ==
    { [BaseParams EXCEPT !.c_reg = c.reg, !.c_phleb = c.phleb, !.c_fast = c.fast,
                         !.c_slow = c.slow, !.c_verify = c.verify,
                         !.use_verify = c.use, !.service_time = c.st] :
        c \in { [reg |-> 1, phleb |-> 1, fast |-> 1, slow |-> 1, verify |-> 1,
                 use |-> TRUE, st |-> service_time],
                [reg |-> 1, phleb |-> 1, fast |-> 1, slow |-> 1, verify |-> 1,
                 use |-> FALSE, st |-> FixedServiceTime],
                [reg |-> 2, phleb |-> 1, fast |-> 1, slow |-> 2, verify |-> 1,
                 use |-> TRUE, st |-> FixedServiceTime],
                [reg |-> 1, phleb |-> 2, fast |-> 2, slow |-> 1, verify |-> 2,
                 use |-> TRUE, st |-> ShortServiceTime] } }

\* The patients started.
MaxPatients == 3

\* The state once env.process(patient(env, pid, priority, test_type,
\* resources, log, params)) has been called for pid = 0, 1, ...: the
\* Initialize events of the processes (URGENT) are scheduled in that order.
InitNetwork ==
    /\ params \in NetworkConfigs
    /\ seed = 5
    /\ rngIdx = 0
    /\ now = 0
    /\ evq = [i \in 1..MaxPatients |->
                 Event(0, URGENT, i - 1, "init_patient", i - 1, NoRes)]
    /\ eid = MaxPatients
    /\ resources = MakeResources(params)
    /\ \E priority \in [0..(MaxPatients - 1) -> {0, 1}],
          test_type \in [0..(MaxPatients - 1) -> {"fast", "slow"}] :
          pat = [p \in 0..(MaxPatients - 1) |->
                    NewPatient(priority[p], test_type[p])]
    /\ nextPid = 0
    /\ log = make_log
    /\ status = "running"
    /\ reqSeq = 0
    /\ calls = 1
    /\ returned = {}
    /\ report = NoReport
    /\ pcall = NoCall

\* The steps of the patient processes and of the pools.
NextNetwork ==
    \/ PatientStart
    \/ RequestGranted
    \/ ServiceDone
    \/ ReleaseEvent
    \/ ProcessEnd

\* The environment is stepped as long as an event is scheduled, so a step
\* that can be taken is taken: weak fairness of NextNetwork,
\* WF_vars(NextNetwork), with the enabling condition of NextNetwork written
\* out as Running.
SpecNetwork ==
    /\ InitNetwork
    /\ [][NextNetwork]_vars
    /\ ([]<>(~Running) \/ []<><<NextNetwork>>_vars)

\* ------------------------------------------------------------ properties
Records == {log.patients[i] : i \in 1..Len(log.patients)}

\* C1: in every reachable state, no pool has more slots held than its
\* configured capacity.
C1_HeldWithinCapacity ==
    \A r \in DOMAIN resources : Len(resources[r].users) <= resources[r].capacity

\* A pool is full while a request waits for it.
C1_Witness ==
    \E r \in DOMAIN resources :
        /\ Len(resources[r].users) = resources[r].capacity
        /\ resources[r].put_queue # <<>>

\* A is ahead of B in (priority class, submission order).
Ahead(A, B) ==
    \/ A.priority < B.priority
    \/ A.priority = B.priority /\ A.seq < B.seq

\* C2: a request is never granted while a request that is ahead of it in
\* (priority class, submission order) is left waiting on the same pool: an
\* expedited request is granted no later than a normal one pending with it,
\* and within a class the earlier submission is granted first.
C2_AdmissionOrder ==
    [][\A r \in DOMAIN resources \cap DOMAIN resources' :
         \A i \in 1..Len(resources'[r].users) :
            resources'[r].users[i].pid \notin Holders(resources[r]) =>
               \A j \in 1..Len(resources'[r].put_queue) :
                  ~Ahead(resources'[r].put_queue[j], resources'[r].users[i])]_vars

\* An expedited request submitted after a normal one overtook it: it holds
\* the slot it waited for while the normal request, pending before the
\* grant, still waits.
C2_Witness ==
    \E r \in DOMAIN resources :
       \E i \in 1..Len(resources[r].users), j \in 1..Len(resources[r].put_queue) :
          /\ resources[r].users[i].priority = 0
          /\ resources[r].put_queue[j].priority = 1
          /\ resources[r].put_queue[j].seq < resources[r].users[i].seq
          /\ resources[r].users[i].usage_since > resources[r].users[i].time

\* C3: a held slot is given up only by its holder when the holder's own
\* service timeout fires; no request, whatever its class, takes it away.
C3_NoPreemption ==
    [][\A r \in DOMAIN resources \cap DOMAIN resources' :
         \A i \in 1..Len(resources[r].users) :
            LET u == resources[r].users[i]
            IN  \/ \E k \in 1..Len(resources'[r].users) : resources'[r].users[k] = u
                \/ /\ Head(evq).kind = "service_timeout"
                   /\ Head(evq).pid = u.pid
                   /\ Head(evq).res = r
                   /\ Head(evq).t = now']_vars

\* A normal patient is in service in a full pool while an expedited request
\* waits for that pool.
C3_Witness ==
    \E r \in DOMAIN resources :
       /\ Len(resources[r].users) = resources[r].capacity
       /\ \E i \in 1..Len(resources[r].users) :
             /\ resources[r].users[i].priority = 1
             /\ pat[resources[r].users[i].pid].pc \in {"IN_REG", "IN_SAMPLE", "IN_TEST", "IN_VERIFY"}
       /\ \E j \in 1..Len(resources[r].put_queue) :
             resources[r].put_queue[j].priority = 0

\* The order of the patient states.
StateOrder ==
    {<<"ARRIVED", "QUEUED_REG">>, <<"QUEUED_REG", "IN_REG">>,
     <<"IN_REG", "QUEUED_SAMPLE">>, <<"QUEUED_SAMPLE", "IN_SAMPLE">>,
     <<"IN_SAMPLE", "QUEUED_TEST">>, <<"QUEUED_TEST", "IN_TEST">>,
     <<"IN_TEST", "QUEUED_VERIFY">>, <<"QUEUED_VERIFY", "IN_VERIFY">>,
     <<"IN_TEST", "DONE">>, <<"IN_VERIFY", "DONE">>}

\* The pools of a service state.
StagePools(pc) ==
    CASE pc = "IN_REG" -> {"reg"}
      [] pc = "IN_SAMPLE" -> {"phleb"}
      [] pc = "IN_TEST" -> {"machine_fast", "machine_slow"}
      [] pc = "IN_VERIFY" -> {"verify"}
      [] OTHER -> {}

HeldBy(rs, p) == {r \in DOMAIN rs : p \in Holders(rs[r])}

\* C4: a patient starts in ARRIVED and changes state only to the next state
\* of the sequence; it enters a service state only when the pool of that
\* stage has granted it a slot, and leaves it only by releasing that slot.
C4_StateSequence ==
    [][\A p \in DOMAIN pat' :
         IF p \notin DOMAIN pat
         THEN pat'[p].pc = "ARRIVED"
         ELSE pat'[p].pc # pat[p].pc =>
                /\ <<pat[p].pc, pat'[p].pc>> \in StateOrder
                /\ StagePools(pat'[p].pc) # {} =>
                      HeldBy(resources, p) \cap StagePools(pat'[p].pc) # {}
                /\ StagePools(pat[p].pc) # {} =>
                      /\ HeldBy(resources, p) \cap StagePools(pat[p].pc) # {}
                      /\ HeldBy(resources', p) \cap StagePools(pat[p].pc) = {}]_vars

\* A patient went through every stage, verification included, after having
\* waited for its machine.
C4_Witness ==
    \E p \in DOMAIN pat :
       /\ pat[p].pc = "DONE"
       /\ pat[p].usage_since["verify"] # Unset
       /\ pat[p].wait_machine > 0


\* A service duration of a finished patient, 0 for a stage it did not pass.
Served(d) == IF d = Unset THEN 0 ELSE d

WaitsOf(rec) == rec.wait_reg + rec.wait_sample + rec.wait_machine + rec.wait_verify

ServicesOf(p) ==
    Served(p.service_reg) + Served(p.service_sample) + Served(p.service_test)
      + Served(p.service_verify)

\* C5: for every record of the log, system_time is finish minus arrival and
\* equals the sum of the recorded waits plus the service durations of the
\* stages the patient passed; so it is at least the sum of the waits.
C5_SystemTimeIsWaitsPlusServices ==
    \A rec \in Records :
        /\ rec.system_time = rec.finish - rec.arrival
        /\ rec.system_time = WaitsOf(rec) + ServicesOf(pat[rec.pid])
        /\ rec.system_time >= WaitsOf(rec)

\* A logged patient that waited at two stages at least.
C5_Witness ==
    \E rec \in Records :
        /\ Cardinality({w \in {"wait_reg", "wait_sample", "wait_machine", "wait_verify"} :
                           rec[w] > 0}) >= 2
        /\ ServicesOf(pat[rec.pid]) > 0

\* The time a stage's queue was entered and the time its slot was granted,
\* as the request of that stage has them (time, usage_since).
WaitAt(p, r) == p.usage_since[r] - p.req_time[r]

\* The end of the service of a stage: grant time plus service duration.
ServiceEnd(p, r, d) == p.usage_since[r] + d

\* C6: every recorded wait is the grant time of the stage's slot minus the
\* time the patient entered the stage's queue (the arrival time for
\* registration, the end of the previous service for the later stages), and
\* is at least 0.
C6_WaitIsGrantMinusEntry ==
    \A rec \in Records :
        LET p == pat[rec.pid]
            m == IF rec.test_type = "fast" THEN "machine_fast" ELSE "machine_slow"
        IN  /\ rec.wait_reg = WaitAt(p, "reg")
            /\ p.req_time["reg"] = rec.arrival
            /\ rec.wait_sample = WaitAt(p, "phleb")
            /\ p.req_time["phleb"] = ServiceEnd(p, "reg", p.service_reg)
            /\ rec.wait_machine = WaitAt(p, m)
            /\ p.req_time[m] = ServiceEnd(p, "phleb", p.service_sample)
            /\ IF p.req_time["verify"] = Unset
               THEN rec.wait_verify = 0
               ELSE /\ rec.wait_verify = WaitAt(p, "verify")
                    /\ p.req_time["verify"] = ServiceEnd(p, m, p.service_test)
            /\ rec.wait_reg >= 0
            /\ rec.wait_sample >= 0
            /\ rec.wait_machine >= 0
            /\ rec.wait_verify >= 0

\* A logged patient that waited for registration and for verification.
C6_Witness ==
    \E rec \in Records : rec.wait_reg > 0 /\ rec.wait_verify > 0

DonePatients == {p \in DOMAIN pat : pat[p].pc = "DONE"}

\* C7: when run_simulation has returned, every record has its finish not
\* later than sim_time and belongs to a patient that reached DONE; the
\* patients still queued or in service have no record, and no counted list
\* holds more entries than there are patients that reached DONE.
C7_OnlyCompletedLogged ==
    status = "stopped" =>
        /\ \A rec \in Records :
              rec.finish <= params.sim_time /\ rec.pid \in DonePatients
        /\ \A p \in DOMAIN pat \ DonePatients :
              \A rec \in Records : rec.pid # p
        /\ Len(log.patients) = Cardinality(DonePatients)
        /\ \A f \in {"wait_reg", "wait_sample", "wait_machine", "wait_verify",
                     "system_time"} :
              Len(log[f]) <= Cardinality(DonePatients)

\* The run has returned with a patient in service, a patient queued and a
\* record in the log.
C7_Witness ==
    /\ status = "stopped"
    /\ log.patients # <<>>
    /\ \E p \in DOMAIN pat : pat[p].pc \in {"IN_REG", "IN_SAMPLE", "IN_TEST", "IN_VERIFY"}
    /\ \E p \in DOMAIN pat :
          pat[p].pc \in {"QUEUED_REG", "QUEUED_SAMPLE", "QUEUED_TEST", "QUEUED_VERIFY"}

\* The entries of a field of the records whose arrival is not before the
\* warm-up threshold, in log order.
RECURSIVE AfterWarmUp(_, _, _)
AfterWarmUp(recs, f, w) ==
    IF recs = <<>> THEN <<>>
    ELSE IF Head(recs).arrival >= w
         THEN <<Head(recs)[f]>> \o AfterWarmUp(Tail(recs), f, w)
         ELSE AfterWarmUp(Tail(recs), f, w)

\* C8: every patient that reached DONE has exactly one record in the full
\* log, and the counted lists hold the waits and the system time of exactly
\* the records whose arrival is at or after the warm-up threshold.
C8_WarmUpFilter ==
    status \in {"running", "stopped"} =>
        /\ \A p \in DonePatients :
              Cardinality({i \in 1..Len(log.patients) : log.patients[i].pid = p}) = 1
        /\ log.wait_reg = AfterWarmUp(log.patients, "wait_reg", params.warm_up)
        /\ log.wait_sample = AfterWarmUp(log.patients, "wait_sample", params.warm_up)
        /\ log.wait_machine = AfterWarmUp(log.patients, "wait_machine", params.warm_up)
        /\ log.system_time = AfterWarmUp(log.patients, "system_time", params.warm_up)

\* The returned log holds a record that arrived before the threshold and,
\* after it, a counted one that arrived later than the threshold.
C8_Witness ==
    /\ status = "stopped"
    /\ \E rec \in Records : rec.arrival < params.warm_up
    /\ \E rec \in Records : rec.arrival > params.warm_up
    /\ Len(log.system_time) >= 1
    /\ Len(log.system_time) < Len(log.patients)

\* C9: whatever was run in between, two invocations of run_simulation with
\* the same parameters and the same seed return the same log.
C9_SameSeedSameLog ==
    \A a, b \in returned :
        (a.params = b.params /\ a.seed = b.seed) => a.log = b.log

\* Two invocations with the same parameters and seed have returned a log
\* with records, with an invocation of another seed in between.
C9_Witness ==
    \E a, b, c \in returned :
        /\ a.call < c.call /\ c.call < b.call
        /\ a.params = b.params /\ a.seed = b.seed
        /\ c.seed # a.seed
        /\ a.log.patients # <<>>
        /\ c.log # a.log

\* C10: the fast-machine pool is requested and held only by patients of
\* test type fast and the slow-machine pool only by patients of test type
\* slow, at every moment of a run.
C10_MachineByTestType ==
    /\ \A r \in DOMAIN resources \cap {"machine_fast", "machine_slow"} :
          \A p \in Holders(resources[r]) \cup Pending(resources[r]) :
             pat[p].test_type = (IF r = "machine_fast" THEN "fast" ELSE "slow")
    /\ \A p \in DOMAIN pat :
          /\ pat[p].test_type = "fast" => pat[p].req_time["machine_slow"] = Unset
          /\ pat[p].test_type = "slow" => pat[p].req_time["machine_fast"] = Unset

\* A fast patient holds a fast machine while a slow patient holds a slow
\* machine and another one waits for a machine.
C10_Witness ==
    /\ status = "running"
    /\ Holders(resources["machine_fast"]) # {}
    /\ Holders(resources["machine_slow"]) # {}
    /\ Pending(resources["machine_fast"]) \cup Pending(resources["machine_slow"]) # {}


\* C11: a patient is in a verification state only when verification is
\* enabled by the configuration; when it is not, no patient ever requests
\* the verification pool, every finished patient went to DONE at the end of
\* its test service, its wait_verify is recorded as 0 and the counted
\* wait_verify list stays empty.
C11_VerifyOnlyIfEnabled ==
    /\ \A p \in DOMAIN pat :
          pat[p].pc \in {"QUEUED_VERIFY", "IN_VERIFY"} => params.use_verify
    /\ ~params.use_verify =>
          /\ \A p \in DOMAIN pat :
                /\ pat[p].req_time["verify"] = Unset
                /\ pat[p].service_verify = Unset
                /\ pat[p].pc = "DONE" =>
                      LET m == IF pat[p].test_type = "fast"
                               THEN "machine_fast" ELSE "machine_slow"
                      IN  pat[p].finish_time
                            = pat[p].usage_since[m] + pat[p].service_test
          /\ \A rec \in Records : rec.wait_verify = 0
          /\ log.wait_verify = <<>>

\* With verification disabled, a run has returned a log that holds a counted
\* record.
C11_Witness ==
    /\ status = "stopped"
    /\ ~params.use_verify
    /\ log.system_time # <<>>
    /\ \E p \in DOMAIN pat : pat[p].pc = "DONE"


\* The requests newly granted on a pool by a step.
NewlyGranted(r) ==
    {i \in 1..Len(resources'[r].users) :
        resources'[r].users[i].pid \notin Holders(resources[r])}

\* The original reading of C12: whenever a slot of a pool with pending
\* requests is granted, it goes to the request that was first among those
\* pending when the slot was released.
C12_GrantToFirstPendingAtRelease ==
    [][\A r \in DOMAIN resources \cap DOMAIN resources' :
          resources[r].put_queue # <<>> =>
             \A i \in NewlyGranted(r) :
                resources'[r].users[i].pid = Head(resources[r].put_queue).pid]_vars

\* A pool has a free slot and a pending request.
SlotOwed(r) ==
    /\ Len(resources[r].users) < resources[r].capacity
    /\ resources[r].put_queue # <<>>

\* A release event of the pool is due at the current instant, ahead of every
\* timeout and of every resumption of a patient (the releasing one included)
\* that was scheduled after it.
ReleaseDue(r) ==
    \E i \in 1..Len(evq) :
        /\ evq[i].kind = "release" /\ evq[i].res = r /\ evq[i].t = now
        /\ \A j \in 1..Len(evq) :
              (/\ evq[j].kind \in {"service_timeout", "arrival_timeout", "request",
                                   "process_end"}
               /\ evq[j].eid > evq[i].eid) => j > i

\* The patients that issue their request to the pool in a step.
Requesters(r) ==
    {p \in DOMAIN pat \cap DOMAIN pat' :
        pat[p].req_time[r] = Unset /\ pat'[p].req_time[r] # Unset}

\* The step processes a release event of the pool.
ReleaseEventStep(r) ==
    status = "running" /\ evq # <<>> /\ Head(evq).kind = "release" /\ Head(evq).res = r

\* The step grants exactly one slot of the pool, to the patient, with the
\* current instant as the time of the grant.
GrantsOnly(r, pid) ==
    /\ Cardinality(NewlyGranted(r)) = 1
    /\ \A i \in NewlyGranted(r) :
          /\ resources'[r].users[i].pid = pid
          /\ resources'[r].users[i].usage_since = now

\* C12 as amended.  (1) The release itself frees the slot and leaves the
\* queue as it is, and the release event is scheduled for the same instant
\* ahead of every event that resumes the releasing patient.  (2) A release
\* event that finds the slot still free grants it, at the logical time of
\* the release, to the request then at the head of the queue; one that finds
\* the pool full or the queue empty grants nothing.  (3) A request issued to
\* the pool while a freed slot is owed (at the instant of the release, ahead
\* of the release event) is put in the queue and the head of the queue is
\* granted the slot at once: the newcomer if it is of a better class than
\* the request that was first, otherwise that request, the newcomer staying
\* behind in the queue.  (4) A slot is granted to a waiting request by no
\* other step than these two.  (5) As long as a slot is owed, the release
\* event is due at the current instant, ahead of every timeout and every
\* resumption scheduled after it: the clock does not advance and no such
\* event is processed before the slot has been granted.
C12_GrantAtReleaseEvent ==
    [][/\ (status = "running" /\ Head(evq).kind = "service_timeout"
           /\ resources[Head(evq).res].put_queue # <<>>) =>
              /\ resources'[Head(evq).res].put_queue
                   = resources[Head(evq).res].put_queue
              /\ Len(resources'[Head(evq).res].users)
                   = Len(resources[Head(evq).res].users) - 1
              /\ \E i \in 1..Len(evq') :
                    /\ evq'[i].kind = "release"
                    /\ evq'[i].res = Head(evq).res
                    /\ evq'[i].t = now'
                    /\ \A j \in 1..Len(evq') : evq'[j].pid = Head(evq).pid => j > i
       /\ \A r \in DOMAIN resources \cap DOMAIN resources' :
             /\ (ReleaseEventStep(r) /\ SlotOwed(r)) =>
                    /\ now' = now
                    /\ resources'[r].put_queue = Tail(resources[r].put_queue)
                    /\ GrantsOnly(r, Head(resources[r].put_queue).pid)
             /\ (ReleaseEventStep(r) /\ ~SlotOwed(r)) =>
                    resources'[r] = resources[r]
             /\ \A p \in Requesters(r) :
                    SlotOwed(r) =>
                       LET first == Head(resources[r].put_queue)
                           better == pat[p].priority < first.priority
                       IN  /\ now' = now
                           /\ GrantsOnly(r, IF better THEN p ELSE first.pid)
                           /\ (IF better THEN first.pid ELSE p)
                                  \in Pending(resources'[r])
                           /\ Len(resources'[r].put_queue)
                                  = Len(resources[r].put_queue)
             /\ NewlyGranted(r) # {} =>
                    \/ ReleaseEventStep(r)
                    \/ Requesters(r) # {}
       /\ \A r \in DOMAIN resources' : SlotOwed(r)' => ReleaseDue(r)']_vars

\* A release event has just granted the freed slot to a waiting request, and
\* the patient that released it is already queued or served at its next
\* stage.
C12_Witness ==
    \E r \in DOMAIN resources :
       \E i \in 1..Len(resources[r].users) :
          LET u == resources[r].users[i]
          IN  /\ u.usage_since > u.time
              /\ u.usage_since = now
              /\ pat[u.pid].pc \in {"QUEUED_REG", "QUEUED_SAMPLE"}
              /\ \E q \in DOMAIN pat :
                    /\ q # u.pid
                    /\ pat[q].q_start = now
                    /\ pat[q].req_time[r] # Unset
                    /\ pat[q].usage_since[r] + Served(
                          IF r = "reg" THEN pat[q].service_reg
                          ELSE pat[q].service_sample) = now

\* A pool of one slot whose release event is still to come is held by a
\* patient that was granted the slot at this instant, by the request of a
\* newcomer.
GrantedAhead(r) ==
    /\ resources[r].capacity = 1
    /\ \E i \in 1..Len(evq) : evq[i].kind = "release" /\ evq[i].res = r
    /\ Len(resources[r].users) = 1
    /\ resources[r].users[1].usage_since = now

\* The newcomer was of a better class than the request pending since before
\* the release and holds the slot; the pending request still waits.
C12_NewcomerFirst ==
    \E r \in DOMAIN resources :
        /\ GrantedAhead(r)
        /\ resources[r].users[1].time = now
        /\ \E k \in 1..Len(resources[r].put_queue) :
              /\ resources[r].put_queue[k].time < now
              /\ resources[r].put_queue[k].priority > resources[r].users[1].priority

\* The newcomer was not of a better class: its request made the pool grant
\* the slot to the request pending since before the release, ahead of the
\* release event, and the newcomer waits.
C12_NewcomerBehind ==
    \E r \in DOMAIN resources :
        /\ GrantedAhead(r)
        /\ resources[r].users[1].time < now
        /\ \E k \in 1..Len(resources[r].put_queue) :
              resources[r].put_queue[k].time = now


\* C13: the logical clock never decreases, and the event that is processed
\* is never later than an event still waiting: the clock moves to the time
\* of the processed event, no pending event is scheduled for an earlier time
\* and nothing is scheduled into the past.
C13_ClockMonotone ==
    [][/\ now' >= now
       /\ (status = "running" /\ evq # <<>>) =>
             /\ now' = Head(evq).t
             /\ \A i \in 1..Len(evq) : evq[i].t >= now'
             /\ \A i \in 1..Len(evq') : evq'[i].t >= now']_vars

\* The clock has advanced, and an event scheduled later than another one is
\* due before it.
C13_Witness ==
    /\ status = "running"
    /\ now > 0
    /\ \E i, j \in 1..Len(evq) :
          /\ i < j
          /\ evq[i].eid > evq[j].eid
          /\ evq[i].t < evq[j].t
          /\ evq[j].kind # "until"


\* C14: the patients spawned so far are 0, 1, ..., without gaps; a patient
\* with a larger pid arrived no earlier than one with a smaller pid; every
\* pid has at most one record in the log, with the arrival time of that
\* patient.
C14_SequentialPids ==
    /\ DOMAIN pat = 0..(nextPid - 1)
    /\ \A p, q \in DOMAIN pat :
          (p < q /\ pat[q].arrival_time # Unset) =>
             /\ pat[p].arrival_time # Unset
             /\ pat[p].arrival_time <= pat[q].arrival_time
    /\ \A i, j \in 1..Len(log.patients) :
          i # j => log.patients[i].pid # log.patients[j].pid
    /\ \A rec \in Records :
          rec.pid \in DOMAIN pat /\ rec.arrival = pat[rec.pid].arrival_time

\* Three patients have arrived, not all at the same time, and two of them
\* are in the log.
C14_Witness ==
    /\ nextPid >= 3
    /\ Len(log.patients) >= 2
    /\ \E p, q \in DOMAIN pat :
          p < q /\ pat[p].arrival_time # Unset /\ pat[p].arrival_time < pat[q].arrival_time


\* C15: the two pairs of composition counters each add up to the number of
\* patients spawned so far, each counter is the number of spawned patients
\* of its class, and the log has at most that many records.
C15_CountsMatchSpawned ==
    /\ log.counts.priority + log.counts.normal = nextPid
    /\ log.counts.fast + log.counts.slow = nextPid
    /\ log.counts.priority = Cardinality({p \in DOMAIN pat : pat[p].priority = 0})
    /\ log.counts.fast = Cardinality({p \in DOMAIN pat : pat[p].test_type = "fast"})
    /\ nextPid = Cardinality(DOMAIN pat)
    /\ Len(log.patients) <= nextPid

\* The run has stopped with both classes and both tests counted and with a
\* patient that was counted but has no record.
C15_Witness ==
    /\ status = "stopped"
    /\ log.counts.priority > 0 /\ log.counts.normal > 0
    /\ log.counts.fast > 0 /\ log.counts.slow > 0
    /\ Len(log.patients) > 0
    /\ Len(log.patients) < nextPid


\* s is a prefix of t.
IsPrefixOf(s, t) ==
    /\ Len(s) <= Len(t)
    /\ \A i \in 1..Len(s) : s[i] = t[i]

\* The lists of the log.
LogLists == {"patients", "wait_reg", "wait_sample", "wait_machine",
             "wait_verify", "system_time"}

\* C16: every step of a run keeps each list of the log as a prefix of its
\* new value, and every finished patient, counted or not, has its record in
\* the full list.
C16_LogAppendOnly ==
    [][status = "running" =>
          /\ \A f \in LogLists : IsPrefixOf(log[f], log'[f])
          /\ \A p \in DonePatients' : \E rec \in Records' : rec.pid = p]_vars

\* A record of a patient that arrived during warm-up is in the full list,
\* followed by the record of a counted patient.
C16_Witness ==
    /\ Len(log.patients) >= 2
    /\ log.patients[1].arrival < params.warm_up
    /\ log.patients[2].arrival >= params.warm_up
    /\ Len(log.system_time) = 1


\* The number of slots of all pools held by a patient.
SlotsHeld(rs, p) ==
    Cardinality(UNION {{<<r, i>> : i \in {j \in 1..Len(rs[r].users) :
                                               rs[r].users[j].pid = p}} :
                          r \in DOMAIN rs})

\* The number of requests of a patient waiting in the queues of all pools.
SlotsAsked(rs, p) ==
    Cardinality(UNION {{<<r, i>> : i \in {j \in 1..Len(rs[r].put_queue) :
                                               rs[r].put_queue[j].pid = p}} :
                          r \in DOMAIN rs})

\* C17: a patient holds or waits for at most one slot over all pools; a
\* patient whose record has been appended holds no slot, waits for none and
\* has no grant or service timeout to come.
C17_OneSlotAtATime ==
    \A p \in DOMAIN pat :
       /\ SlotsHeld(resources, p) + SlotsAsked(resources, p) <= 1
       /\ \A r \in DOMAIN resources :
             Len(resources[r].users) + Len(resources[r].put_queue) <= nextPid
       /\ pat[p].pc = "DONE" =>
             /\ SlotsHeld(resources, p) + SlotsAsked(resources, p) = 0
             /\ \A i \in 1..Len(evq) :
                   evq[i].pid = p => evq[i].kind \notin {"request", "service_timeout"}

\* One patient is done while another one holds the slot of a later stage
\* than registration, having given back the earlier ones.
C17_Witness ==
    \E p, q \in DOMAIN pat :
       /\ pat[p].pc = "DONE"
       /\ pat[q].pc \in {"IN_SAMPLE", "IN_TEST", "IN_VERIFY"}
       /\ SlotsHeld(resources, q) = 1


\* The requests of all pools, waiting or granted.
AllRequests(rs) ==
    UNION {{rs[r].put_queue[i] : i \in 1..Len(rs[r].put_queue)}
              \cup {rs[r].users[i] : i \in 1..Len(rs[r].users)} : r \in DOMAIN rs}

\* C18: no step changes the priority class or the test type of a patient;
\* after every step each request, waiting or granted, in any pool carries
\* the priority class of its patient, a patient at the test stage is at the
\* machines of its test type, and each record carries the priority class and
\* test type of its patient.
C18_ClassFixedAtArrival ==
    [][/\ \A p \in DOMAIN pat \cap DOMAIN pat' :
             /\ pat'[p].priority = pat[p].priority
             /\ pat'[p].test_type = pat[p].test_type
       /\ \A req \in AllRequests(resources') :
             req.pid \in DOMAIN pat' /\ req.priority = pat'[req.pid].priority
       /\ \A p \in DOMAIN pat' :
             pat'[p].pc \in {"QUEUED_TEST", "IN_TEST"} =>
                SlotsHeld(resources', p) + SlotsAsked(resources', p)
                  = LET m == resources'[IF pat'[p].test_type = "fast"
                                        THEN "machine_fast" ELSE "machine_slow"]
                    IN  Cardinality({i \in 1..Len(m.users) : m.users[i].pid = p})
                          + Cardinality({i \in 1..Len(m.put_queue) :
                                            m.put_queue[i].pid = p})
       /\ \A rec \in Records' :
             /\ rec.priority = pat'[rec.pid].priority
             /\ rec.test_type = pat'[rec.pid].test_type]_vars

\* A normal patient of a slow test has its record in the log while an
\* expedited patient holds a slot of a stage after registration.
C18_Witness ==
    /\ \E rec \in Records : rec.priority = 1 /\ rec.test_type = "slow"
    /\ \E r \in DOMAIN resources \ {"reg"} :
          \E i \in 1..Len(resources[r].users) : resources[r].users[i].priority = 0


\* One of the four stage pools has a capacity that is not positive.
BadStageCapacity(ps) ==
    ps.c_reg <= 0 \/ ps.c_phleb <= 0 \/ ps.c_fast <= 0 \/ ps.c_slow <= 0

\* Verification is enabled with a capacity that is not positive.
BadVerifyCapacity(ps) == ps.use_verify /\ ps.c_verify <= 0

\* The run has not started: no pool, no patient, no event, nothing returned.
NothingRan ==
    /\ status \in {"idle", "error"}
    /\ resources = NoResources
    /\ pat = NoPatients /\ nextPid = 0
    /\ evq = <<>> /\ eid = 0 /\ now = 0
    /\ log = make_log
    /\ returned = {}

\* C19 as stated: with a capacity that is not positive for any pool, the
\* verification pool included when verification is enabled, run_simulation
\* never starts the run: no patient, no event, no log returned.
C19_AnyBadCapacityFails ==
    (BadStageCapacity(params) \/ BadVerifyCapacity(params)) => NothingRan

\* Where the program departs from C19: the run of a configuration with
\* verification enabled and no verification capacity has returned a log with
\* a record.
C19_RunWithoutVerify ==
    /\ status = "stopped"
    /\ BadVerifyCapacity(params)
    /\ \E r \in returned : Len(r.log.patients) > 0

\* C20: with a mean inter-arrival time of 0 or less, no patient is ever
\* spawned, no composition counter is ever incremented and no run returns.
C20_FailsBeforeAnySpawn ==
    params.mean_interarrival <= 0 =>
       /\ pat = NoPatients /\ nextPid = 0
       /\ log.counts = make_log.counts
       /\ status # "stopped"


\* A probability, in millionths, outside [0, 1].
BadProbability(p) == p < 0 \/ p > UScale

\* C21: with p_priority or p_fast outside [0, 1] run_simulation never starts
\* a run and never returns a log.
C21_BadProbabilityRejected ==
    (BadProbability(params.p_priority) \/ BadProbability(params.p_fast)) =>
        /\ status \in {"idle", "error"}
        /\ returned = {}


\* C22: calculate_utilization never fails, and every value it reports lies
\* in [0, 100].
C22_UtilizationInRange ==
    /\ ~(status = "error" /\ "bottleneck" \in report.made)
    /\ "utilization" \in report.made =>
          \A r \in DOMAIN report.utilization.values :
             /\ RatLeq(Rat(0, 1), report.utilization.values[r])
             /\ RatLeq(report.utilization.values[r], Rat(100, 1))


\* The patients that were served by a pool during the run: those that held
\* a slot of it and gave it back at the end of their service there.
ServedBy(r) ==
    {p \in DOMAIN pat :
        /\ pat[p].usage_since[r] # Unset
        /\ p \notin Holders(resources[r])}

\* The modal service duration of the stage of a pool.
ModeOf(ps, r) ==
    CASE r = "reg" -> ps.service_time.registration[2]
      [] r = "phleb" -> ps.service_time.sampling[2]
      [] r = "machine_fast" -> ps.service_time.test_fast[2]
      [] r = "machine_slow" -> ps.service_time.test_slow[2]
      [] r = "verify" -> ps.service_time.verification[2]

\* C23: the utilization reported for a pool of the run is
\* min(100, 100 * served * mode / (capacity * sim_time)), served being the
\* number of patients the pool served during the run.
C23_UtilizationFromServed ==
    "utilization" \in report.made =>
       \A r \in DOMAIN report.utilization.values \cap DOMAIN resources :
          RatEq(report.utilization.values[r],
                Cap100(RatDiv(RatMul(Rat(100 * Cardinality(ServedBy(r)), 1),
                                     Rat(ModeOf(params, r), 1)),
                              RatMul(Rat(resources[r].capacity, 1),
                                     Rat(params.sim_time, 1)))))


\* The mean counted wait of a stage, verification counting 0 when it has no
\* counted waits.
StageMean(nm) ==
    LET ws == CASE nm = "Registrasi" -> log.wait_reg
                [] nm = "Pengambilan Sampel" -> log.wait_sample
                [] nm = "Mesin Tes" -> log.wait_machine
                [] nm = "Verifikasi" -> log.wait_verify
    IN  IF ws = <<>> THEN Rat(0, 1) ELSE RatDiv(SumSeq(ws), Rat(Len(ws), 1))

StageSet == {"Registrasi", "Pengambilan Sampel", "Mesin Tes", "Verifikasi"}

\* The sum of the four stage means.
StageMeanSum ==
    RatAdd(RatAdd(StageMean("Registrasi"), StageMean("Pengambilan Sampel")),
           RatAdd(StageMean("Mesin Tes"), StageMean("Verifikasi")))

\* C24: for a log with counted patients, the stage analyze_bottleneck
\* returns has a mean counted wait no smaller than that of any of the four
\* stages, the wait time returned is that mean, and severity is 100 times
\* that mean over the sum of the four means, or 0 when the sum is 0.
C24_BottleneckIsMaxStage ==
    ("bottleneck" \in report.made /\ log.system_time # <<>>) =>
       LET b == report.bottleneck
           m == StageMean(b.bottleneck)
       IN  /\ b.bottleneck \in StageSet
           /\ \A nm \in StageSet : RatLeq(StageMean(nm), m)
           /\ RatEq(b.wait_time, m)
           /\ IF RatEq(StageMeanSum, Rat(0, 1))
              THEN RatEq(b.severity, Rat(0, 1))
              ELSE RatEq(RatMul(b.severity, StageMeanSum), RatMul(Rat(100, 1), m))

\* The bottleneck reported is a later stage than registration, and it has
\* only a share of the waiting.
C24_Witness ==
    /\ "bottleneck" \in report.made
    /\ log.system_time # <<>>
    /\ report.bottleneck.bottleneck # "Registrasi"
    /\ RatGt(report.bottleneck.severity, Rat(0, 1))
    /\ RatGt(Rat(100, 1), report.bottleneck.severity)


\* The i-th smallest element of a non-empty sequence, i in 1..Len(xs).
OrderStat(xs, i) ==
    CHOOSE v \in {xs[j] : j \in 1..Len(xs)} :
        /\ Cardinality({j \in 1..Len(xs) : xs[j] < v}) < i
        /\ i <= Cardinality({j \in 1..Len(xs) : xs[j] <= v})

\* C25: percentile of the empty sequence is nan for any p; for a non-empty
\* sequence percentile at 0 is its minimum and percentile at 100 its maximum.
C25_PercentileEnds ==
    pcall.called =>
       IF pcall.xs = <<>> THEN pcall.result = NaN
       ELSE /\ pcall.p = 0 =>
                 /\ RatEq(pcall.result, Rat(OrderStat(pcall.xs, 1), 1))
                 /\ \A j \in 1..Len(pcall.xs) :
                       RatLeq(pcall.result, Rat(pcall.xs[j], 1))
            /\ pcall.p = 100 =>
                 /\ RatEq(pcall.result, Rat(OrderStat(pcall.xs, Len(pcall.xs)), 1))
                 /\ \A j \in 1..Len(pcall.xs) :
                       RatLeq(Rat(pcall.xs[j], 1), pcall.result)

\* percentile at 100 has been called on a sequence that is not in ascending
\* order and whose largest element is not the last.
C25_Witness ==
    /\ pcall.called
    /\ pcall.p = 100
    /\ Len(pcall.xs) = 3
    /\ pcall.xs[1] > pcall.xs[2] /\ pcall.xs[1] > pcall.xs[3]

\* C26: for a non-empty sequence of length n and p in [0, 100], with
\* k = (n - 1) * p / 100, percentile is the interpolation
\* lo + (k - floor(k)) * (hi - lo) between the elements lo at rank floor(k)
\* and hi at rank ceil(k) of the ascending order; it lies between lo and hi
\* and does not decrease when p grows.
C26_PercentileInterpolates ==
    (pcall.called /\ pcall.xs # <<>>) =>
       LET n == Len(pcall.xs)
           k100 == (n - 1) * pcall.p
           fl == k100 \div 100
           ce == IF k100 % 100 = 0 THEN fl ELSE fl + 1
           lo == OrderStat(pcall.xs, fl + 1)
           hi == OrderStat(pcall.xs, ce + 1)
       IN  /\ RatEq(pcall.result, Rat(100 * lo + (k100 - 100 * fl) * (hi - lo), 100))
           /\ RatLeq(Rat(lo, 1), pcall.result)
           /\ RatLeq(pcall.result, Rat(hi, 1))
           /\ \A q \in Percentages :
                 q >= pcall.p => RatLeq(pcall.result, percentile(pcall.xs, q))

\* percentile has been called at a rank that falls strictly between two
\* different elements of an unordered sequence.
C26_Witness ==
    /\ pcall.called
    /\ pcall.p = 95
    /\ Len(pcall.xs) = 3
    /\ pcall.xs[1] > pcall.xs[2] /\ pcall.xs[2] < pcall.xs[3]
    /\ RatGt(pcall.result, Rat(OrderStat(pcall.xs, 2), 1))
    /\ RatGt(Rat(OrderStat(pcall.xs, 3), 1), pcall.result)


\* C27: the summary of a log without counted patients is made, with a
\* counted population of 0 and nan for the four means and for the P95; the
\* total still counts every record.
C27_EmptySummaryIsNaN ==
    /\ status = "summarized" => "summary" \in report.made
    /\ ("summary" \in report.made /\ log.system_time = <<>>) =>
          /\ report.summary.counted = 0
          /\ report.summary.total = Len(log.patients)
          /\ report.summary.mean_wait_reg = NaN
          /\ report.summary.mean_wait_sample = NaN
          /\ report.summary.mean_wait_machine = NaN
          /\ report.summary.mean_system_time = NaN
          /\ report.summary.p95_system_time = NaN

\* A summary has been made of a log whose only records are of patients that
\* arrived during warm-up.
C27_Witness ==
    /\ "summary" \in report.made
    /\ log.system_time = <<>>
    /\ Len(log.patients) > 0


\* C28: with p_priority = 0 no spawned patient is expedited and the
\* priority counter stays 0; with p_fast = 1 every spawned patient has a
\* fast test, the slow counter stays 0 and no patient ever asks for, waits
\* for or holds a slot of the slow machines.
C28_BoundaryProbabilities ==
    /\ params.p_priority = 0 =>
          /\ log.counts.priority = 0
          /\ \A p \in DOMAIN pat : pat[p].priority = 1
          /\ \A rec \in Records : rec.priority = 1
    /\ params.p_fast = UScale =>
          /\ log.counts.slow = 0
          /\ \A p \in DOMAIN pat :
                /\ pat[p].test_type = "fast"
                /\ pat[p].req_time["machine_slow"] = Unset
                /\ pat[p].usage_since["machine_slow"] = Unset
          /\ "machine_slow" \in DOMAIN resources =>
                /\ resources["machine_slow"].users = <<>>
                /\ resources["machine_slow"].put_queue = <<>>

\* With p_priority = 0 and p_fast = 1, a patient has finished and another
\* one has been on the fast machines.
C28_Witness ==
    /\ params.p_priority = 0 /\ params.p_fast = UScale
    /\ Len(log.patients) > 0
    /\ \E p \in DOMAIN pat :
          pat[p].pc # "DONE" /\ pat[p].usage_since["machine_fast"] # Unset


\* Verification is enabled with a positive capacity.
VerifyConfigured(ps) == ps.use_verify /\ ps.c_verify > 0

\* A patient has queued for and held a slot of the verification pool.
PassedVerify(p) ==
    /\ pat[p].req_time["verify"] # Unset
    /\ pat[p].usage_since["verify"] # Unset
    /\ pat[p].service_verify # Unset

\* C29: once the run has started, the verification pool exists exactly when
\* use_verify is set and c_verify is positive, and exactly then every
\* patient that has completed has queued for and held a verification slot;
\* otherwise no patient ever asks for one.  With use_verify set and c_verify
\* 0 or less (and the other parameters valid) the run does not fail.
C29_VerifyIffConfigured ==
    /\ status \in {"running", "stopped"} =>
          /\ HasVerify <=> VerifyConfigured(params)
          /\ \A p \in DonePatients : PassedVerify(p) <=> VerifyConfigured(params)
          /\ ~VerifyConfigured(params) =>
                \A p \in DOMAIN pat :
                   /\ pat[p].req_time["verify"] = Unset
                   /\ pat[p].pc \notin {"QUEUED_VERIFY", "IN_VERIFY"}
    /\ (BadVerifyCapacity(params) /\ ~BadStageCapacity(params)
          /\ params.mean_interarrival > 0) => status # "error"

\* A run with use_verify set and c_verify not positive has returned, with a
\* patient that completed without verification.
C29_Witness ==
    /\ status = "stopped"
    /\ params.use_verify /\ params.c_verify <= 0
    /\ \E p \in DonePatients : ~PassedVerify(p) /\ pat[p].finish_time # Unset


\* The wait a patient has recorded for the stage of a pool.
WaitField(p, r) ==
    CASE r = "reg" -> p.wait_reg
      [] r = "phleb" -> p.wait_sample
      [] r \in {"machine_fast", "machine_slow"} -> p.wait_machine
      [] r = "verify" -> p.wait_verify

\* The next event is later than the clock: time is about to advance.
TimeAdvances == Running /\ Head(evq).t > now

\* C30: when time is about to advance no pool has both a free slot and a
\* waiting request; a request issued to a pool with a free slot and an empty
\* queue is granted in the same step, at the time of the request; and the
\* wait recorded for a request granted at the time it was issued is 0.
C30_WorkConserving ==
    [][/\ TimeAdvances =>
             \A r \in DOMAIN resources :
                ~(Len(resources[r].users) < resources[r].capacity
                    /\ resources[r].put_queue # <<>>)
       /\ \A p \in DOMAIN pat', r \in DOMAIN resources \cap DOMAIN resources' :
             (/\ pat'[p].req_time[r] # Unset
              /\ p \in DOMAIN pat => pat[p].req_time[r] = Unset
              /\ Len(resources[r].users) < resources[r].capacity
              /\ resources[r].put_queue = <<>>) =>
                /\ p \in Holders(resources'[r])
                /\ pat'[p].usage_since[r] = now'
                /\ pat'[p].req_time[r] = now'
       /\ \A p \in DOMAIN pat \cap DOMAIN pat', r \in DOMAIN resources' :
             (/\ pat[p].pc # pat'[p].pc
              /\ pat'[p].pc \in {"IN_REG", "IN_SAMPLE", "IN_TEST", "IN_VERIFY"}
              /\ r = PoolOf(pat'[p].pc, pat'[p].test_type)
              /\ pat'[p].usage_since[r] = pat'[p].req_time[r]) =>
                WaitField(pat'[p], r) = 0]_vars

\* A patient whose request found a free slot and an empty queue is in
\* service with a recorded wait of 0, while another patient waits for a full
\* pool and the next event is later than the clock.
C30_Witness ==
    /\ TimeAdvances
    /\ \E p \in DOMAIN pat, r \in DOMAIN resources :
          /\ pat[p].pc \in {"IN_SAMPLE", "IN_TEST", "IN_VERIFY"}
          /\ r = PoolOf(pat[p].pc, pat[p].test_type)
          /\ pat[p].usage_since[r] = pat[p].req_time[r]
          /\ WaitField(pat[p], r) = 0
    /\ \E r \in DOMAIN resources :
          /\ resources[r].put_queue # <<>>
          /\ Len(resources[r].users) = resources[r].capacity


\* A patient has reached DONE and its record is in the log.
Completed(p) ==
    /\ p \in DOMAIN pat
    /\ pat[p].pc = "DONE"
    /\ \E rec \in Records : rec.pid = p

\* The schedule holds an event of the given kind for the patient.
HasEvent(kind, p) == \E i \in 1..Len(evq) : evq[i].kind = kind /\ evq[i].pid = p

\* The holder of a slot is on its way to giving it back: it is in service
\* with its timeout scheduled, or it has been granted the slot and the
\* event that resumes it is scheduled.
WillRelease(p, r) ==
    /\ p \in DOMAIN pat
    /\ r = PoolOf(pat[p].pc, pat[p].test_type)
    /\ \/ pat[p].pc \in {"IN_REG", "IN_SAMPLE", "IN_TEST", "IN_VERIFY"}
             /\ HasEvent("service_timeout", p)
       \/ pat[p].pc \in {"QUEUED_REG", "QUEUED_SAMPLE", "QUEUED_TEST",
                          "QUEUED_VERIFY"}
             /\ HasEvent("request", p)

\* In a state of a run each patient that is not DONE has something scheduled
\* that moves it on: a patient just spawned has its start scheduled, a
\* patient that holds a slot is in service with its timeout scheduled or is
\* about to be resumed, and a patient waiting in a queue waits for a full
\* pool all of whose holders are on their way to releasing, or for a pool
\* whose release event is scheduled; no patient waits for a slot while
\* holding another one.
NoPatientStuck ==
    status = "running" =>
       \A p \in DOMAIN pat :
          LET pc == pat[p].pc
              r == PoolOf(pc, pat[p].test_type)
          IN  /\ pc = "ARRIVED" => HasEvent("init_patient", p)
              /\ pc = "DONE" => Completed(p)
              /\ pc \notin {"ARRIVED", "DONE"} =>
                    /\ r \in DOMAIN resources
                    /\ SlotsHeld(resources, p) + SlotsAsked(resources, p) = 1
                    /\ IF p \in Holders(resources[r])
                       THEN WillRelease(p, r)
                       ELSE /\ p \in Pending(resources[r])
                            /\ \/ /\ Len(resources[r].users) = resources[r].capacity
                                  /\ \A q \in Holders(resources[r]) : WillRelease(q, r)
                               \/ \E i \in 1..Len(evq) :
                                     evq[i].kind = "release" /\ evq[i].res = r

\* C31: the patient network cannot deadlock.  When MaxPatients patients have
\* arrived and the clock runs without a horizon, no patient is ever left
\* waiting on nothing, every patient eventually reaches DONE with its record
\* in the log, and in the end all patients are logged, every pool is free
\* and nothing is left scheduled, whatever the capacities, the priority
\* classes and the test types.
C31_EveryPatientCompletes ==
    /\ []NoPatientStuck
    /\ \A p \in 0..(MaxPatients - 1) : (p \in DOMAIN pat) ~> Completed(p)
    /\ <>[](/\ evq = <<>>
            /\ \A p \in 0..(MaxPatients - 1) : Completed(p)
            /\ \A r \in DOMAIN resources :
                  resources[r].users = <<>> /\ resources[r].put_queue = <<>>)

\* The network has drained after congestion: every patient is logged,
\* patients of both classes had to wait, one for registration and one for a
\* later stage, and a patient started after another one left before it.
C31_Witness ==
    /\ evq = <<>>
    /\ \A p \in 0..(MaxPatients - 1) : Completed(p)
    /\ \E a, b \in Records :
          /\ a.priority # b.priority
          /\ a.wait_reg > 0
          /\ b.wait_sample + b.wait_machine + b.wait_verify > 0
    /\ \E i, j \in 1..Len(log.patients) :
          i < j /\ log.patients[i].pid > log.patients[j].pid


\* The service duration a patient has drawn for the stage of a pool.
ServiceField(p, r) ==
    CASE r = "reg" -> p.service_reg
      [] r = "phleb" -> p.service_sample
      [] r \in {"machine_fast", "machine_slow"} -> p.service_test
      [] r = "verify" -> p.service_verify

\* C32: the test duration of a patient is the next draw of the stream in the
\* step in which it enters the test queue, after the draws of every patient
\* that entered the queue of the same machines earlier, and the step in
\* which the machine is granted draws nothing; the registration, sampling
\* and verification durations are the next draw of the stream in the step
\* in which the granted slot is taken, at the time of the grant.
C32_DrawOrder ==
    [][\A p \in DOMAIN pat \cap DOMAIN pat' :
         LET m == MachinePool(pat[p].test_type)
             r == PoolOf(pat'[p].pc, pat'[p].test_type)
         IN  /\ (pat[p].pc # "QUEUED_TEST" /\ pat'[p].pc = "QUEUED_TEST") =>
                   /\ pat[p].service_test = Unset
                   /\ pat'[p].service_test # Unset
                   /\ pat'[p].draw_idx[m] = rngIdx
                   /\ rngIdx' = rngIdx + 1
                   /\ pat'[p].req_time[m] = now'
                   /\ \A q \in DOMAIN pat \ {p} :
                         pat[q].req_time[m] # Unset =>
                            /\ pat[q].draw_idx[m] # Unset
                            /\ pat[q].draw_idx[m] < pat'[p].draw_idx[m]
             /\ (pat[p].pc = "QUEUED_TEST" /\ pat'[p].pc = "IN_TEST") =>
                   /\ rngIdx' = rngIdx
                   /\ pat'[p].service_test = pat[p].service_test
                   /\ pat'[p].draw_idx = pat[p].draw_idx
             /\ (pat[p].pc # pat'[p].pc
                   /\ pat'[p].pc \in {"IN_REG", "IN_SAMPLE", "IN_VERIFY"}) =>
                   /\ ServiceField(pat[p], r) = Unset
                   /\ ServiceField(pat'[p], r) # Unset
                   /\ pat'[p].draw_idx[r] = rngIdx
                   /\ rngIdx' = rngIdx + 1
                   /\ pat'[p].usage_since[r] = now']_vars

\* Two patients have been on the same machines, and the one that drew its
\* test duration later was granted the machine first.
C32_Witness ==
    \E p, q \in DOMAIN pat, m \in {"machine_fast", "machine_slow"} :
       /\ ~BadProbability(params.p_priority) /\ ~BadProbability(params.p_fast)
       /\ pat[p].draw_idx[m] # Unset /\ pat[q].draw_idx[m] # Unset
       /\ pat[p].draw_idx[m] < pat[q].draw_idx[m]
       /\ pat[q].usage_since[m] # Unset
       /\ pat[p].usage_since[m] = Unset \/ pat[q].usage_since[m] < pat[p].usage_since[m]


\* C33: the records of the log are in completion order: the finish time of
\* a record is not later than that of any record after it, and the last
\* record is never later than the clock.
C33_CompletionOrder ==
    /\ \A i, j \in 1..Len(log.patients) :
          i < j => log.patients[i].finish <= log.patients[j].finish
    /\ \A i \in 1..Len(log.patients) : log.patients[i].finish <= now

\* A patient that arrived later is logged before one that arrived earlier,
\* having finished strictly earlier.
C33_Witness ==
    \E i \in 1..(Len(log.patients) - 1) :
       /\ log.patients[i].pid > log.patients[i + 1].pid
       /\ log.patients[i].arrival > log.patients[i + 1].arrival
       /\ log.patients[i].finish < log.patients[i + 1].finish


\* The records of the patients that arrived at or after the warm-up time, in
\* the order of the log.
CountedRecords ==
    SelectSeq(log.patients, LAMBDA rec : rec.arrival >= params.warm_up)

\* C34: wait_reg, wait_sample, wait_machine and system_time have one common
\* length, at most the number of records; wait_verify has that length when
\* there is a verification pool and is empty otherwise; and the i-th entries
\* of the lists are the values of one record, the i-th counted one.
C34_CountedListsAligned ==
    LET n == Len(log.system_time)
    IN  /\ Len(log.wait_reg) = n
        /\ Len(log.wait_sample) = n
        /\ Len(log.wait_machine) = n
        /\ n <= Len(log.patients)
        /\ Len(log.wait_verify) = IF HasVerify THEN n ELSE 0
        /\ n = Len(CountedRecords)
        /\ \A i \in 1..n :
              /\ log.wait_reg[i] = CountedRecords[i].wait_reg
              /\ log.wait_sample[i] = CountedRecords[i].wait_sample
              /\ log.wait_machine[i] = CountedRecords[i].wait_machine
              /\ log.system_time[i] = CountedRecords[i].system_time
              /\ HasVerify => log.wait_verify[i] = CountedRecords[i].wait_verify

\* Without a verification pool, two patients are counted and the log has a
\* record more than the counted lists have entries.
C34_Witness ==
    /\ ~HasVerify
    /\ Len(log.system_time) >= 2
    /\ Len(log.patients) > Len(log.system_time)
    /\ log.wait_verify = <<>>


\* C35: for a log with counted patients, the severity analyze_bottleneck
\* returns is 0 exactly when the four stage means are all 0, and otherwise
\* it lies between 25 and 100, the largest of four non-negative means being
\* at least a quarter of their sum.
C35_SeverityRange ==
    ("bottleneck" \in report.made /\ log.system_time # <<>>) =>
       LET severity == report.bottleneck.severity
       IN  /\ ~severity.nan
           /\ \A nm \in StageSet : RatLeq(Rat(0, 1), StageMean(nm))
           /\ IF \A nm \in StageSet : RatEq(StageMean(nm), Rat(0, 1))
              THEN RatEq(severity, Rat(0, 1))
              ELSE /\ RatLeq(Rat(25, 1), severity)
                   /\ RatLeq(severity, Rat(100, 1))

\* Two stages or more had waits, so that the severity is under 100, and the
\* worst one had under half of the waiting.
C35_Witness ==
    /\ "bottleneck" \in report.made
    /\ log.system_time # <<>>
    /\ RatLeq(Rat(25, 1), report.bottleneck.severity)
    /\ RatGt(Rat(50, 1), report.bottleneck.severity)

\* All the waits of the counted patients were 0 and the severity is 0.
C35_WitnessZero ==
    /\ "bottleneck" \in report.made
    /\ log.system_time # <<>>
    /\ RatEq(report.bottleneck.severity, Rat(0, 1))


\* C36: when the log has no record, calculate_utilization returns: it does
\* not raise, and the mapping it returns has no entry for any pool.
C36_EmptyLogEmptyUtilization ==
    (status \in {"reported", "error"} /\ log.patients = <<>>) =>
       /\ status = "reported"
       /\ "utilization" \in report.made
       /\ report.utilization.error = "none"
       /\ DOMAIN report.utilization.values = {}

\* Patients arrived, none of them finished within the horizon, and
\* calculate_utilization has returned.
C36_Witness ==
    /\ status = "reported"
    /\ "utilization" \in report.made
    /\ log.patients = <<>>
    /\ log.counts.priority + log.counts.normal > 0

\* The same with a verification pool asked for with capacity 0, the
\* configuration whose division fails for a log with records.
C36_WitnessZeroCapacity ==
    /\ C36_Witness
    /\ params.use_verify
    /\ params.c_verify = 0

====
